---------------------------- MODULE Spec2Model ----------------------------
(***************************************************************************)
(* A model of the yukari move generator (crate yukari-movegen): the        *)
(* attack-table board representation, FEN construction, make / make_null,  *)
(* the legal move generator, the Zobrist hash and perft.                   *)
(*                                                                         *)
(* Encodings.  Squares are 0..63 (8*rank + file), piece identifiers 0..31, *)
(* Option::None is -1.  Enumerations carry their Rust discriminants.  A    *)
(* Bitlist (u32 bit set over identifiers) is the set of its set bits; the  *)
(* iteration order of a Bitlist (lowest bit first) is kept by BitlistIter. *)
(* The Zobrist table holds independent random 64-bit keys, so a hash value *)
(* is modelled as the set of keys XORed into it an odd number of times and *)
(* XOR is symmetric difference: two hashes are equal for every table iff   *)
(* these sets are equal.                                                   *)
(***************************************************************************)
EXTENDS Integers, Sequences, FiniteSets, TLC

None == -1

\* ---- colour.rs -----------------------------------------------------------
White == 0
Black == 1

Not(colour) == IF colour = White THEN Black ELSE White

\* ---- piece.rs ------------------------------------------------------------
Pawn == 0
Knight == 1
Bishop == 2
Rook == 3
Queen == 4
King == 5

\* ---- square.rs: Direction ------------------------------------------------
North == 0
NorthNorthEast == 1
NorthEast == 2
EastNorthEast == 3
East == 4
EastSouthEast == 5
SouthEast == 6
SouthSouthEast == 7
South == 8
SouthSouthWest == 9
SouthWest == 10
WestSouthWest == 11
West == 12
WestNorthWest == 13
NorthWest == 14
NorthNorthWest == 15

Squares == 0..63
PieceIndices == 0..31

DIRECTIONS ==
  <<
    SouthWest, None, None, None, None, None, None, South,
    None, None, None, None, None, None, SouthEast, None,
    None, SouthWest, None, None, None, None, None, South,
    None, None, None, None, None, SouthEast, None, None,
    None, None, SouthWest, None, None, None, None, South,
    None, None, None, None, SouthEast, None, None, None,
    None, None, None, SouthWest, None, None, None, South,
    None, None, None, SouthEast, None, None, None, None,
    None, None, None, None, SouthWest, None, None, South,
    None, None, SouthEast, None, None, None, None, None,
    None, None, None, None, None, SouthWest, None, South,
    None, SouthEast, None, None, None, None, None, None,
    None, None, None, None, None, None, SouthWest, South,
    SouthEast, None, None, None, None, None, None, None,
    West, West, West, West, West, West, West, None,
    East, East, East, East, East, East, East, None,
    None, None, None, None, None, None, NorthWest, North,
    NorthEast, None, None, None, None, None, None, None,
    None, None, None, None, None, NorthWest, None, North,
    None, NorthEast, None, None, None, None, None, None,
    None, None, None, None, NorthWest, None, None, North,
    None, None, NorthEast, None, None, None, None, None,
    None, None, None, NorthWest, None, None, None, North,
    None, None, None, NorthEast, None, None, None, None,
    None, None, NorthWest, None, None, None, None, North,
    None, None, None, None, NorthEast, None, None, None,
    None, NorthWest, None, None, None, None, None, North,
    None, None, None, None, None, NorthEast, None, None,
    NorthWest, None, None, None, None, None, None, North,
    None, None, None, None, None, None, NorthEast, None
  >>

OPPOSITE ==
  << South, SouthSouthWest, SouthWest, WestSouthWest,
     West, WestNorthWest, NorthWest, NorthNorthWest,
     North, NorthNorthEast, NorthEast, EastNorthEast,
     East, EastSouthEast, SouthEast, SouthSouthEast >>

opposite(dir) == OPPOSITE[dir + 1]

VECTORS ==
  << 16, 33, 17, 18, 1, -14, -15, -31, -16, -33, -17, -18, -1, 14, 15, 31 >>

to_16x8(dir) == VECTORS[dir + 1]

diagonal(dir) == dir \in {NorthEast, SouthEast, SouthWest, NorthWest}

orthogonal(dir) == dir \in {North, East, West, South}

valid_for_slider(dir, piece) ==
  CASE piece = Bishop -> diagonal(dir)
    [] piece = Rook -> orthogonal(dir)
    [] piece = Queen -> diagonal(dir) \/ orthogonal(dir)

\* ---- square.rs: Rank, File, Square16x8, Square ---------------------------
RankOf(square) == square \div 8

FileOf(square) == square % 8

from_rank_file(rank, file) == 8 * rank + file

is_relative_fourth(rank, colour) ==
  IF colour = White THEN rank = 3 ELSE rank = 4

is_relative_eighth(rank, colour) ==
  IF colour = White THEN rank = 7 ELSE rank = 0

\* square + (square & !7)
from_square(square) == square + (square - (square % 8))

\* self.0 & 0x88 != 0, on a u8
is_off_board(sq16) == ((sq16 \div 8) % 2 = 1) \/ ((sq16 \div 128) % 2 = 1)

\* (sq + (sq & 7)) >> 1
to_square(sq16) ==
  IF is_off_board(sq16) THEN None ELSE (sq16 + (sq16 % 8)) \div 2

\* dest.wrapping_sub(from).wrapping_add(119), on u8
vector(from16, dest16) == ((((dest16 - from16) % 256) + 119) % 256)

\* i16 wrapping_add, then the cast to u8
add_dir(sq16, dir) == (sq16 + to_16x8(dir)) % 256

direction16(from16, dest16) == DIRECTIONS[vector(from16, dest16) + 1]

\* Fault model: Square::direction with the two squares exchanged.
direction_reversed(from, dest) ==
  direction16(from_square(dest), from_square(from))

direction(from, dest) == direction16(from_square(from), from_square(dest))

travel(square, dir) == to_square(add_dir(from_square(square), dir))

relative_north(square, colour) ==
  IF colour = White THEN travel(square, North) ELSE travel(square, South)

relative_south(square, colour) ==
  IF colour = White THEN travel(square, South) ELSE travel(square, North)

\* RayIter: the squares from sq16 (exclusive) in direction dir up to the edge.
RECURSIVE ray_attacks(_, _)
ray_attacks(sq16, dir) ==
  LET next == add_dir(sq16, dir)
  IN IF is_off_board(next) THEN << >>
     ELSE << to_square(next) >> \o ray_attacks(next, dir)

KING_DIR ==
  << North, NorthEast, East, SouthEast, South, SouthWest, West, NorthWest >>

KNIGHT_DIR ==
  << NorthNorthEast, EastNorthEast, EastSouthEast, SouthSouthEast,
     SouthSouthWest, WestSouthWest, WestNorthWest, NorthNorthWest >>

\* KingIter: the on-board neighbours of a square, in KING_DIR order.
king_attacks(square) ==
  LET all == [i \in 1..8 |-> travel(square, KING_DIR[i])]
  IN SelectSeq(all, LAMBDA s : s # None)

\* ---- sequencing -----------------------------------------------------------
\* `let x = v; Body(x)`: v is evaluated once, before Body.
Let(v, Body(_)) == CHOOSE r \in {Body(x) : x \in {v}} : TRUE

\* `for k in lo..=hi { acc = Op(acc, seq[k]) }`.  The range is split in
\* halves and the left half is evaluated before the right one is entered,
\* which keeps the evaluation depth logarithmic in the length of the loop.
RECURSIVE FoldRange(_, _, _, _, _)
FoldRange(Op(_, _), acc, seq, lo, hi) ==
  IF lo > hi THEN acc
  ELSE IF lo = hi THEN Op(acc, seq[lo])
  ELSE LET mid == (lo + hi) \div 2
       IN CHOOSE r \in {FoldRange(Op, left, seq, mid + 1, hi) :
                          left \in {FoldRange(Op, acc, seq, lo, mid)}} : TRUE

\* `for x in seq { acc = Op(acc, x) }`
Fold(Op(_, _), acc, seq) ==
  CHOOSE r \in {FoldRange(Op, a, s, 1, Len(s)) : a \in {acc}, s \in {seq}} : TRUE

\* Concatenation of lists[lo..hi]: what a loop pushes, in iteration order.
RECURSIVE Flatten(_, _, _)
Flatten(lists, lo, hi) ==
  IF lo > hi THEN << >>
  ELSE IF lo = hi THEN lists[lo]
  ELSE LET mid == (lo + hi) \div 2
       IN Flatten(lists, lo, mid) \o Flatten(lists, mid + 1, hi)

\* `for x in items { Body(x) }` where Body pushes moves or squares.
ForEach(items, Body(_)) ==
  CHOOSE r \in {Flatten(l, 1, Len(l)) :
                  l \in {[k \in 1..Len(s) |-> Body(s[k])] : s \in {items}}} : TRUE

\* ---- board/bitlist.rs ----------------------------------------------------
white_mask == 0..15

black_mask == 16..31

mask_from_colour(colour) == IF colour = White THEN white_mask ELSE black_mask

\* The lowest set bit.  On an empty list the source is undefined behaviour
\* (unreachable_unchecked); the model yields None there.
peek_nonzero(bits) ==
  IF bits = {} THEN None
  ELSE CHOOSE i \in bits : \A j \in bits : i <= j

\* BitlistIter: the set bits, lowest first.
BitlistIter(bits) ==
  [k \in 1..Cardinality(bits) |->
     CHOOSE i \in bits : Cardinality({j \in bits : j < i}) = k - 1]

\* BitlistArray::add_piece.  The debug assertion (the bit is clear) is
\* recorded in `fault`; the release build just sets the bit.
bitlist_add_piece(d, square, piece) ==
  [d EXCEPT !.bitlist[square] = @ \cup {piece},
            !.fault = @ \/ (piece \in d.bitlist[square])]

\* BitlistArray::remove_piece.  The debug assertion (the bit is set) is
\* recorded in `fault`; the release build just clears the bit.
bitlist_remove_piece(d, square, piece) ==
  [d EXCEPT !.bitlist[square] = @ \ {piece},
            !.fault = @ \/ (piece \notin d.bitlist[square])]

\* ---- board/index.rs ------------------------------------------------------
is_white(index) == index <= 15

colour_of_index(index) == IF is_white(index) THEN White ELSE Black

\* ---- board/piecemask.rs --------------------------------------------------
mask_empty(d) == PieceIndices \ (d.pbq \cup d.nbk \cup d.rqk)

occupied(d) == PieceIndices \ mask_empty(d)

pawns(d) == (d.pbq \ d.nbk) \ d.rqk

knights(d) == (d.nbk \ d.pbq) \ d.rqk

bishops(d) == d.pbq \cap d.nbk

rooks(d) == (d.rqk \ d.pbq) \ d.nbk

queens(d) == d.pbq \cap d.rqk

kings(d) == d.nbk \cap d.rqk

pieces_of_colour(d, colour) == occupied(d) \cap mask_from_colour(colour)

\* Piecemask::piece
mask_piece(d, index) ==
  LET p == index \in d.pbq
      n == index \in d.nbk
      r == index \in d.rqk
  IN CASE p /\ ~n /\ ~r -> Pawn
       [] ~p /\ n /\ ~r -> Knight
       [] p /\ n /\ ~r -> Bishop
       [] ~p /\ ~n /\ r -> Rook
       [] p /\ ~n /\ r -> Queen
       [] ~p /\ n /\ r -> King
       [] OTHER -> None

\* The (pbq, nbk, rqk) bits of a piece kind.
kind_bits(piece) ==
  CASE piece = Pawn -> << TRUE, FALSE, FALSE >>
    [] piece = Knight -> << FALSE, TRUE, FALSE >>
    [] piece = Bishop -> << TRUE, TRUE, FALSE >>
    [] piece = Rook -> << FALSE, FALSE, TRUE >>
    [] piece = Queen -> << TRUE, FALSE, TRUE >>
    [] piece = King -> << FALSE, TRUE, TRUE >>

\* Piecemask::add_piece: the index the new piece gets.
mask_new_index(d, colour) ==
  peek_nonzero(mask_empty(d) \cap mask_from_colour(colour))

\* Piecemask::add_piece: the masks after the piece got index `index`.
mask_add_piece(d, piece, index) ==
  LET k == kind_bits(piece)
  IN [d EXCEPT !.pbq = IF k[1] THEN @ \cup {index} ELSE @,
               !.nbk = IF k[2] THEN @ \cup {index} ELSE @,
               !.rqk = IF k[3] THEN @ \cup {index} ELSE @]

\* Piecemask::remove_piece
mask_remove_piece(d, index) ==
  [d EXCEPT !.pbq = @ \ {index}, !.nbk = @ \ {index}, !.rqk = @ \ {index},
            !.fault = @ \/ (index \notin occupied(d))]

\* ---- board/data.rs -------------------------------------------------------
\* BoardData::new
NewBoardData ==
  [bitlist |-> [s \in Squares |-> {}],
   piecelist |-> [i \in PieceIndices |-> None],
   index |-> [s \in Squares |-> None],
   pbq |-> {}, nbk |-> {}, rqk |-> {},
   fault |-> FALSE]

piece_index(d, square) == d.index[square]

has_piece(d, square) == d.index[square] # None

attacks_to(d, square, colour) == d.bitlist[square] \cap mask_from_colour(colour)

\* Piecelist::get: a missing square reads as square 0 (unwrap_or).
square_of_piece(d, bit) ==
  IF d.piecelist[bit] = None THEN 0 ELSE d.piecelist[bit]

piece_from_bit(d, bit) == mask_piece(d, bit)

piece_from_square(d, square) ==
  IF d.index[square] = None THEN None ELSE mask_piece(d, d.index[square])

colour_from_square(d, square) ==
  IF d.index[square] = None THEN None ELSE colour_of_index(d.index[square])

\* The squares one `slide` of update_attacks visits: from `square` in `dir`,
\* through empty squares, up to and including the first occupied one, at most
\* seven squares.
RECURSIVE slide_from(_, _, _, _)
slide_from(index, sq, dir, iters) ==
  IF sq = None THEN << >>
  ELSE LET next == IF index[sq] = None THEN travel(sq, dir) ELSE None
       IN IF iters + 1 > 6 THEN << sq >>
          ELSE << sq >> \o slide_from(index, next, dir, iters + 1)

\* Fault model: the slide closure without the test of skip_dir.
slide_no_skip(index, square, dir, skip_dir) ==
  slide_from(index, travel(square, dir), dir, 0)

slide(index, square, dir, skip_dir) ==
  IF skip_dir # None /\ (skip_dir = dir \/ skip_dir = opposite(dir))
  THEN << >>
  ELSE slide_from(index, travel(square, dir), dir, 0)

leap(square, dir) ==
  IF travel(square, dir) # None THEN << travel(square, dir) >> ELSE << >>

\* The directions update_attacks walks for a piece, in source order.
attack_dirs(piece, bit) ==
  CASE piece = Pawn ->
         IF is_white(bit) THEN << NorthEast, NorthWest >>
         ELSE << SouthEast, SouthWest >>
    [] piece = Knight -> KNIGHT_DIR
    [] piece = King -> KING_DIR
    [] piece = Bishop -> << NorthEast, SouthEast, SouthWest, NorthWest >>
    [] piece = Rook -> << North, East, South, West >>
    [] piece = Queen ->
         << North, East, South, West,
            NorthEast, SouthEast, SouthWest, NorthWest >>

\* The squares update_attacks touches, in order.
attack_squares(index, square, piece, dirs, skip_dir) ==
  ForEach(dirs,
    LAMBDA dir :
      IF piece \in {Bishop, Rook, Queen}
      THEN slide(index, square, dir, skip_dir)
      ELSE leap(square, dir))

\* The `update` closure of update_attacks and the loop body of
\* update_sliders, applied to each square of a list.
update_all(d, squares, bit, add) ==
  Fold(LAMBDA acc, dest : IF add THEN bitlist_add_piece(acc, dest, bit)
                          ELSE bitlist_remove_piece(acc, dest, bit),
       d, squares)

\* BoardData::update_attacks.  Its two debug assertions (the piece does not
\* attack its own square) are recorded in `fault`.
update_attacks(d, square, bit, piece, add, skip_dir) ==
  Let(update_all([d EXCEPT !.fault = @ \/ (bit \in d.bitlist[square])],
                 attack_squares(d.index, square, piece,
                                attack_dirs(piece, bit), skip_dir),
                 bit, add),
      LAMBDA d2 : [d2 EXCEPT !.fault = @ \/ (bit \in d2.bitlist[square])])

\* The squares update_sliders touches for one slider: from `square` on, in
\* the direction attacker -> square, up to and including the first occupied.
RECURSIVE ray_until_piece(_, _, _)
ray_until_piece(index, ray, k) ==
  IF k > Len(ray) THEN << >>
  ELSE IF index[ray[k]] # None THEN << ray[k] >>
       ELSE << ray[k] >> \o ray_until_piece(index, ray, k + 1)

\* The loop body of update_sliders for one slider.
update_slider(d, square, piece, add) ==
  Let(direction16(from_square(square_of_piece(d, piece)), from_square(square)),
      LAMBDA dir :
        IF dir = None THEN d
        ELSE update_all(d,
               ray_until_piece(d.index,
                               ray_attacks(from_square(square), dir), 1),
               piece, add))

\* Fault model: update_sliders that leaves the slider rays as they were.
update_sliders_skipped(d, square, add) == d

\* BoardData::update_sliders
update_sliders(d, square, add) ==
  Fold(LAMBDA acc, piece : update_slider(acc, square, piece, add),
       d,
       BitlistIter(d.bitlist[square]
                   \cap (bishops(d) \cup rooks(d) \cup queens(d))))

\* BoardData::add_piece.  The debug assertions of Piecelist::add_piece and
\* PieceIndexArray::add_piece are recorded in `fault`.
add_piece(d, piece, colour, square, update) ==
  Let(mask_new_index(d, colour), LAMBDA new_index :
  Let([mask_add_piece(d, piece, new_index) EXCEPT
         !.piecelist[new_index] = square,
         !.index[square] = new_index,
         !.fault = @ \/ d.piecelist[new_index] # None
                     \/ d.index[square] # None], LAMBDA d2 :
  IF update
  THEN Let(update_attacks(d2, square, new_index, piece, TRUE, None),
           LAMBDA d3 : update_sliders(d3, square, FALSE))
  ELSE d2))

\* Fault model: remove_piece that leaves the identifier on its square.
remove_piece_keep_index(d, index, update) ==
  Let(square_of_piece(d, index), LAMBDA square :
  Let(piece_from_bit(d, index), LAMBDA piece :
  Let([mask_remove_piece(d, index) EXCEPT !.piecelist[index] = None],
      LAMBDA d2 :
  IF update
  THEN Let(update_attacks(d2, square, index, piece, FALSE, None),
           LAMBDA d3 : update_sliders(d3, square, TRUE))
  ELSE d2)))

\* BoardData::remove_piece
remove_piece(d, index, update) ==
  Let(square_of_piece(d, index), LAMBDA square :
  Let(piece_from_bit(d, index), LAMBDA piece :
  Let([mask_remove_piece(d, index) EXCEPT !.piecelist[index] = None,
                                          !.index[square] = None],
      LAMBDA d2 :
  IF update
  THEN Let(update_attacks(d2, square, index, piece, FALSE, None),
           LAMBDA d3 : update_sliders(d3, square, TRUE))
  ELSE d2)))

\* Fault model: move_piece that leaves the identifier on the origin square.
move_piece_keep_index(d, from_square_, to_square_) ==
  Let(d.index[from_square_], LAMBDA index :
  Let(piece_from_bit(d, index), LAMBDA piece :
  Let(direction(from_square_, to_square_), LAMBDA dir :
  Let(IF dir # None /\ piece \in {Bishop, Rook, Queen} THEN dir ELSE None,
      LAMBDA slide_dir :
  Let(update_attacks(d, from_square_, index, piece, FALSE, slide_dir),
      LAMBDA d1 :
  Let(update_sliders(d1, from_square_, TRUE), LAMBDA d2 :
  Let(IF slide_dir # None
      THEN bitlist_add_piece(d2, from_square_, index) ELSE d2, LAMBDA d3 :
  Let([d3 EXCEPT !.piecelist[index] = to_square_,
                 !.index[to_square_] = index], LAMBDA d4 :
  Let(IF slide_dir # None
      THEN bitlist_remove_piece(d4, to_square_, index) ELSE d4, LAMBDA d5 :
  Let(update_attacks(d5, to_square_, index, piece, TRUE, slide_dir),
      LAMBDA d6 :
  Let(update_sliders(d6, to_square_, FALSE), LAMBDA d7 :
  [d7 EXCEPT !.fault = @ \/ (index \in d7.bitlist[to_square_])])))))))))))

\* BoardData::move_piece
move_piece(d, from_square_, to_square_) ==
  Let(d.index[from_square_], LAMBDA index :
  Let(piece_from_bit(d, index), LAMBDA piece :
  Let(direction(from_square_, to_square_), LAMBDA dir :
  Let(IF dir # None /\ piece \in {Bishop, Rook, Queen} THEN dir ELSE None,
      LAMBDA slide_dir :
  Let(update_attacks(d, from_square_, index, piece, FALSE, slide_dir),
      LAMBDA d1 :
  Let(update_sliders(d1, from_square_, TRUE), LAMBDA d2 :
  Let(IF slide_dir # None
      THEN bitlist_add_piece(d2, from_square_, index) ELSE d2, LAMBDA d3 :
  Let([d3 EXCEPT !.piecelist[index] = to_square_,
                 !.index[from_square_] = None,
                 !.index[to_square_] = index], LAMBDA d4 :
  Let(IF slide_dir # None
      THEN bitlist_remove_piece(d4, to_square_, index) ELSE d4, LAMBDA d5 :
  Let(update_attacks(d5, to_square_, index, piece, TRUE, slide_dir),
      LAMBDA d6 :
  Let(update_sliders(d6, to_square_, FALSE), LAMBDA d7 :
  [d7 EXCEPT !.fault = @ \/ (index \in d7.bitlist[to_square_])])))))))))))

\* BoardData::rebuild_attacks
rebuild_attacks(d) ==
  Fold(LAMBDA acc, square :
         IF acc.index[square] # None
         THEN update_attacks(acc, square, acc.index[square],
                             piece_from_bit(acc, acc.index[square]), TRUE, None)
         ELSE acc,
       [d EXCEPT !.bitlist = [s \in Squares |-> {}]],
       [i \in 1..64 |-> i - 1])

\* ---- board/mod.rs: Zobrist, Board ---------------------------------------
\* The keys of the Zobrist table (piece[side][piece][square], side, ep[i],
\* castling[i]), each an independent random u64.
zobrist_piece(side, piece, square) == << "piece", side, piece, square >>

zobrist_side == << "side" >>

zobrist_ep(i) == << "ep", i >>

zobrist_castling(i) == << "castling", i >>

\* hash ^= key
xor(hash, key) == IF key \in hash THEN hash \ {key} ELSE hash \cup {key}

\* Board::new
NewBoard ==
  [data |-> NewBoardData,
   side |-> White,
   castle |-> << FALSE, FALSE, FALSE, FALSE >>,
   ep |-> None,
   hash |-> {}]

\* Board::recalculate_hash
recalculate_hash(b) ==
  Let(Fold(LAMBDA hash, piece :
             xor(hash, zobrist_piece(colour_of_index(piece),
                                     piece_from_bit(b.data, piece),
                                     square_of_piece(b.data, piece))),
           {}, BitlistIter(occupied(b.data))), LAMBDA h0 :
  Let(IF b.ep # None THEN xor(h0, zobrist_ep(RankOf(b.ep))) ELSE h0,
      LAMBDA h1 :
  Let(IF b.castle[1] THEN xor(h1, zobrist_castling(0)) ELSE h1, LAMBDA h2 :
  Let(IF b.castle[2] THEN xor(h2, zobrist_castling(1)) ELSE h2, LAMBDA h3 :
  Let(IF b.castle[3] THEN xor(h3, zobrist_castling(2)) ELSE h3, LAMBDA h4 :
  Let(IF b.castle[4] THEN xor(h4, zobrist_castling(3)) ELSE h4, LAMBDA h5 :
  Let(IF b.side = Black THEN xor(h5, zobrist_side) ELSE h5, LAMBDA h6 :
  [b EXCEPT !.hash = h6])))))))

\* Board::from_fen_bytes.  A FEN is the sequence of its bytes.  The result is
\* [tag |-> "Some", board |-> b], [tag |-> "None"] or, where the source
\* indexes past the end of the text or unwraps an Err, [tag |-> "Panic"].
FenNone == [tag |-> "None"]

FenPanic == [tag |-> "Panic"]

to_ascii_lowercase(c) == IF c >= 65 /\ c <= 90 THEN c + 32 ELSE c

is_ascii_uppercase(c) == c >= 65 /\ c <= 90

fen_piece(c) ==
  CASE to_ascii_lowercase(c) = 107 -> King
    [] to_ascii_lowercase(c) = 113 -> Queen
    [] to_ascii_lowercase(c) = 114 -> Rook
    [] to_ascii_lowercase(c) = 98 -> Bishop
    [] to_ascii_lowercase(c) = 110 -> Knight
    [] to_ascii_lowercase(c) = 112 -> Pawn
    [] OTHER -> None

\* The `while file <= 7` loop over one rank of the placement field.  On
\* entry fen[idx] has been read.
RECURSIVE fen_files(_, _, _, _, _)
fen_files(d, fen, idx, rank, file) ==
  LET c == fen[idx + 1]
  IN IF file > 7 THEN [tag |-> "Some", data |-> d, idx |-> idx]
     ELSE IF c >= 49 /\ c <= 56
          THEN IF idx + 1 >= Len(fen) THEN FenPanic
               ELSE fen_files(d, fen, idx + 1, rank, file + (c - 48))
     ELSE IF fen_piece(c) = None THEN FenNone
     ELSE IF idx + 1 >= Len(fen) THEN FenPanic
     ELSE fen_files(add_piece(d, fen_piece(c),
                              IF is_ascii_uppercase(c) THEN White ELSE Black,
                              from_rank_file(rank, file), FALSE),
                    fen, idx + 1, rank, file + 1)

\* The `for rank in (0..=7).rev()` loop.  Yields [tag |-> "Some", data, idx]
\* when rank 1 is complete.
RECURSIVE fen_placement(_, _, _, _)
fen_placement(d, fen, idx, rank) ==
  Let(fen_files(d, fen, idx, rank, 0), LAMBDA r :
    IF r.tag # "Some" THEN r
    ELSE IF rank > 0
         THEN IF r.idx + 1 >= Len(fen) THEN FenPanic
              ELSE fen_placement(r.data, fen, r.idx + 1, rank - 1)
         ELSE r)

\* The castling field.  On entry fen[idx] has been read.  Yields the rights
\* and the index the source holds after the field, or FenPanic.
fen_castling(fen, idx) ==
  LET rd(i) == IF i < Len(fen) THEN fen[i + 1] ELSE None
      c0 == rd(idx)
      k == c0 = 75
      i1 == IF k THEN idx + 1 ELSE idx
      c1 == rd(i1)
      q == c1 = 81
      i2 == IF q THEN i1 + 1 ELSE i1
      c2 == rd(i2)
      bk == c2 = 107
      i3 == IF bk THEN i2 + 1 ELSE i2
      c3 == rd(i3)
      bq == c3 = 113
      i4 == IF bq THEN i3 + 1 ELSE i3
  IN IF c0 = 45 THEN [tag |-> "Some", castle |-> << FALSE, FALSE, FALSE, FALSE >>,
                      idx |-> idx + 1]
     ELSE IF c1 = None \/ c2 = None \/ c3 = None THEN FenPanic
     ELSE [tag |-> "Some", castle |-> << k, q, bk, bq >>, idx |-> i4]

\* Fault model: the en-passant field read with rank and file exchanged.
fen_ep_swapped(fen, idx) ==
  IF idx >= Len(fen) THEN FenPanic
  ELSE IF fen[idx + 1] = 45 THEN [tag |-> "Some", ep |-> None]
  ELSE IF fen[idx + 1] < 97 \/ fen[idx + 1] > 104 THEN FenPanic
  ELSE IF idx + 1 >= Len(fen) THEN FenPanic
  ELSE IF fen[idx + 2] < 49 \/ fen[idx + 2] > 56 THEN FenPanic
  ELSE [tag |-> "Some",
        ep |-> from_rank_file(fen[idx + 1] - 97, fen[idx + 2] - 49)]

\* The en-passant field, read at index idx.
fen_ep(fen, idx) ==
  IF idx >= Len(fen) THEN FenPanic
  ELSE IF fen[idx + 1] = 45 THEN [tag |-> "Some", ep |-> None]
  ELSE IF fen[idx + 1] < 97 \/ fen[idx + 1] > 104 THEN FenPanic
  ELSE IF idx + 1 >= Len(fen) THEN FenPanic
  ELSE IF fen[idx + 2] < 49 \/ fen[idx + 2] > 56 THEN FenPanic
  ELSE [tag |-> "Some",
        ep |-> from_rank_file(fen[idx + 2] - 49, fen[idx + 1] - 97)]

from_fen_bytes(fen) ==
  IF Len(fen) = 0 THEN FenPanic
  ELSE
  Let(fen_placement(NewBoardData, fen, 0, 7), LAMBDA p :
    IF p.tag # "Some" THEN p
    ELSE IF p.idx + 1 >= Len(fen) THEN FenPanic
    ELSE IF fen[p.idx + 2] # 119 /\ fen[p.idx + 2] # 98 THEN FenNone
    ELSE IF p.idx + 3 >= Len(fen) THEN FenPanic
    ELSE
    Let(fen_castling(fen, p.idx + 3), LAMBDA cs :
      IF cs.tag # "Some" THEN cs
      ELSE
      Let(fen_ep(fen, cs.idx + 1), LAMBDA e :
        IF e.tag # "Some" THEN e
        ELSE
        Let(recalculate_hash(
              [data |-> p.data,
               side |-> IF fen[p.idx + 2] = 119 THEN White ELSE Black,
               castle |-> cs.castle,
               ep |-> e.ep,
               hash |-> {}]), LAMBDA b :
        Let(rebuild_attacks(b.data), LAMBDA data :
          [tag |-> "Some", board |-> [b EXCEPT !.data = data]])))))

\* ---- chessmove.rs --------------------------------------------------------
MoveTypes ==
  {"Normal", "Capture", "Castle", "DoublePush", "EnPassant", "Promotion",
   "CapturePromotion"}

\* Move::new
Move(from, dest, kind, promotion_piece) ==
  [from |-> from, dest |-> dest, kind |-> kind, prom |-> promotion_piece]

\* ---- board/mod.rs: make, make_null --------------------------------------
\* Fault model: set_ep that keeps the old target when the new one is none.
set_ep_sticky(b, ep) ==
  IF ep = None THEN b
  ELSE LET h1 == IF b.ep # None THEN xor(b.hash, zobrist_ep(FileOf(b.ep)))
                 ELSE b.hash
       IN [b EXCEPT !.ep = ep, !.hash = xor(h1, zobrist_ep(FileOf(ep)))]

\* Board::set_ep
set_ep(b, ep) ==
  LET h1 == IF b.ep # None THEN xor(b.hash, zobrist_ep(FileOf(b.ep)))
            ELSE b.hash
      h2 == IF ep # None THEN xor(h1, zobrist_ep(FileOf(ep))) ELSE h1
  IN [b EXCEPT !.ep = ep, !.hash = h2]

\* `if b.castle.i { b.castle.i = false; b.hash ^= zobrist.castling[i]; }`
revoke_castle(b, i) ==
  IF b.castle[i + 1]
  THEN [b EXCEPT !.castle[i + 1] = FALSE,
                 !.hash = xor(@, zobrist_castling(i))]
  ELSE b

\* Fault model: castling rights that only a move from a king's or a rook's
\* square revokes, not the capture of a rook on its corner.
make_castling_rights_from_only(b, m) ==
  LET a1 == from_rank_file(0, 0)
      a8 == from_rank_file(7, 0)
      e1 == from_rank_file(0, 4)
      e8 == from_rank_file(7, 4)
      h1 == from_rank_file(0, 7)
      h8 == from_rank_file(7, 7)
  IN
  Let(IF m.from = e1 THEN revoke_castle(revoke_castle(b, 0), 1) ELSE b,
      LAMBDA b1 :
  Let(IF m.from = e8 THEN revoke_castle(revoke_castle(b1, 2), 3) ELSE b1,
      LAMBDA b2 :
  Let(IF m.from = h1 THEN revoke_castle(b2, 0) ELSE b2, LAMBDA b3 :
  Let(IF m.from = a1 THEN revoke_castle(b3, 1) ELSE b3, LAMBDA b4 :
  Let(IF m.from = h8 THEN revoke_castle(b4, 2) ELSE b4, LAMBDA b5 :
  IF m.from = a8 THEN revoke_castle(b5, 3) ELSE b5)))))

\* Fault model: castling rights that a move of the king leaves alone.
make_castling_rights_rooks_only(b, m) ==
  LET a1 == from_rank_file(0, 0)
      a8 == from_rank_file(7, 0)
      h1 == from_rank_file(0, 7)
      h8 == from_rank_file(7, 7)
  IN
  Let(IF m.from = h1 \/ m.dest = h1 THEN revoke_castle(b, 0) ELSE b,
      LAMBDA b3 :
  Let(IF m.from = a1 \/ m.dest = a1 THEN revoke_castle(b3, 1) ELSE b3,
      LAMBDA b4 :
  Let(IF m.from = h8 \/ m.dest = h8 THEN revoke_castle(b4, 2) ELSE b4,
      LAMBDA b5 :
  IF m.from = a8 \/ m.dest = a8 THEN revoke_castle(b5, 3) ELSE b5)))

\* The castling-rights part of Board::make.
make_castling_rights(b, m) ==
  LET a1 == from_rank_file(0, 0)
      a8 == from_rank_file(7, 0)
      e1 == from_rank_file(0, 4)
      e8 == from_rank_file(7, 4)
      h1 == from_rank_file(0, 7)
      h8 == from_rank_file(7, 7)
  IN
  Let(IF m.from = e1 THEN revoke_castle(revoke_castle(b, 0), 1) ELSE b,
      LAMBDA b1 :
  Let(IF m.from = e8 THEN revoke_castle(revoke_castle(b1, 2), 3) ELSE b1,
      LAMBDA b2 :
  Let(IF m.from = h1 \/ m.dest = h1 THEN revoke_castle(b2, 0) ELSE b2,
      LAMBDA b3 :
  Let(IF m.from = a1 \/ m.dest = a1 THEN revoke_castle(b3, 1) ELSE b3,
      LAMBDA b4 :
  Let(IF m.from = h8 \/ m.dest = h8 THEN revoke_castle(b4, 2) ELSE b4,
      LAMBDA b5 :
  IF m.from = a8 \/ m.dest = a8 THEN revoke_castle(b5, 3) ELSE b5)))))

\* The `match m.kind` part of Board::make.
make_pieces(b, m) ==
  CASE m.kind = "Normal" ->
         Let(piece_from_square(b.data, m.from), LAMBDA piece :
         Let(move_piece(b.data, m.from, m.dest), LAMBDA data :
         Let([b EXCEPT
                !.data = data,
                !.hash = xor(xor(@, zobrist_piece(b.side, piece, m.from)),
                             zobrist_piece(b.side, piece, m.dest))],
             LAMBDA b1 : set_ep(b1, None))))
    [] m.kind = "DoublePush" ->
         Let(piece_from_square(b.data, m.from), LAMBDA piece :
         Let(move_piece(b.data, m.from, m.dest), LAMBDA data :
         Let([b EXCEPT
                !.data = data,
                !.hash = xor(xor(@, zobrist_piece(b.side, piece, m.from)),
                             zobrist_piece(b.side, piece, m.dest))],
             LAMBDA b1 : set_ep(b1, relative_north(m.from, b.side)))))
    [] m.kind = "Capture" ->
         Let(piece_index(b.data, m.dest), LAMBDA index :
         Let(piece_from_square(b.data, m.from), LAMBDA moving_piece :
         Let(piece_from_square(b.data, m.dest), LAMBDA captured_piece :
         Let(remove_piece(b.data, index, TRUE), LAMBDA removed :
         Let(move_piece(removed, m.from, m.dest), LAMBDA data :
         Let([b EXCEPT
                !.data = data,
                !.hash = xor(xor(xor(@,
                           zobrist_piece(b.side, moving_piece, m.from)),
                           zobrist_piece(b.side, moving_piece, m.dest)),
                           zobrist_piece(Not(b.side), captured_piece, m.dest))],
             LAMBDA b1 : set_ep(b1, None)))))))
    [] m.kind = "Castle" ->
         Let(IF m.dest > m.from
             THEN travel(m.dest, East)
             ELSE travel(travel(m.dest, West), West), LAMBDA rook_from :
         Let(IF m.dest > m.from
             THEN travel(m.dest, West)
             ELSE travel(m.dest, East), LAMBDA rook_to :
         Let(move_piece(b.data, rook_from, rook_to), LAMBDA rook_moved :
         Let(move_piece(rook_moved, m.from, m.dest), LAMBDA data :
         Let([b EXCEPT
                !.data = data,
                !.hash = xor(xor(xor(xor(@,
                           zobrist_piece(b.side, Rook, rook_from)),
                           zobrist_piece(b.side, Rook, rook_to)),
                           zobrist_piece(b.side, King, m.from)),
                           zobrist_piece(b.side, King, m.dest))],
             LAMBDA b1 : set_ep(b1, None))))))
    [] m.kind = "EnPassant" ->
         Let(relative_south(b.ep, b.side), LAMBDA target_square :
         Let(piece_index(b.data, target_square), LAMBDA target_piece :
         Let(remove_piece(b.data, target_piece, TRUE), LAMBDA removed :
         Let(move_piece(removed, m.from, m.dest), LAMBDA data :
         Let([b EXCEPT
                !.data = data,
                !.hash = xor(xor(xor(@,
                           zobrist_piece(b.side, Pawn, m.from)),
                           zobrist_piece(b.side, Pawn, m.dest)),
                           zobrist_piece(Not(b.side), Pawn, target_square))],
             LAMBDA b1 : set_ep(b1, None))))))
    [] m.kind = "Promotion" ->
         Let(piece_index(b.data, m.from), LAMBDA index :
         Let(remove_piece(b.data, index, TRUE), LAMBDA removed :
         Let(add_piece(removed, m.prom, b.side, m.dest, TRUE), LAMBDA data :
         Let([b EXCEPT
                !.data = data,
                !.hash = xor(xor(@,
                           zobrist_piece(b.side, Pawn, m.from)),
                           zobrist_piece(b.side, m.prom, m.dest))],
             LAMBDA b1 : set_ep(b1, None)))))
    [] m.kind = "CapturePromotion" ->
         Let(piece_index(b.data, m.from), LAMBDA source_piece :
         Let(piece_index(b.data, m.dest), LAMBDA target_piece :
         Let(piece_from_square(b.data, m.dest), LAMBDA captured_piece :
         Let(remove_piece(b.data, source_piece, TRUE), LAMBDA removed1 :
         Let(remove_piece(removed1, target_piece, TRUE), LAMBDA removed2 :
         Let(add_piece(removed2, m.prom, b.side, m.dest, TRUE), LAMBDA data :
         Let([b EXCEPT
                !.data = data,
                !.hash = xor(xor(xor(@,
                           zobrist_piece(b.side, Pawn, m.from)),
                           zobrist_piece(b.side, m.prom, m.dest)),
                           zobrist_piece(Not(b.side), captured_piece, m.dest))],
             LAMBDA b1 : set_ep(b1, None))))))))

\* Board::make
make(b, m) ==
  Let(make_pieces(b, m), LAMBDA b1 :
  Let(make_castling_rights(b1, m), LAMBDA b2 :
  [b2 EXCEPT !.side = Not(@), !.hash = xor(@, zobrist_side)]))

\* Fault model: make_null that keeps the en-passant target.
make_null_keep_ep(b) ==
  [b EXCEPT !.side = Not(@), !.hash = xor(@, zobrist_side)]

\* Board::make_null
make_null(b) ==
  [b EXCEPT !.side = Not(@), !.ep = None, !.hash = xor(@, zobrist_side)]

\* Board::illegal
illegal(b) ==
  LET king_index == peek_nonzero(kings(b.data)
                                 \cap pieces_of_colour(b.data, Not(b.side)))
      king_square == square_of_piece(b.data, king_index)
  IN attacks_to(b.data, king_square, b.side) # {}

\* Board::in_check
in_check(b) ==
  LET king_index == peek_nonzero(kings(b.data) \cap mask_from_colour(b.side))
      king_square == square_of_piece(b.data, king_index)
  IN attacks_to(b.data, king_square, Not(b.side)) # {}

\* ---- board/mod.rs: move generation --------------------------------------
\* PinInfo::new
NewPinInfo ==
  [pins |-> [i \in PieceIndices |-> None], enpassant_pinned |-> {}]

own_king_square(b) ==
  square_of_piece(b.data,
    peek_nonzero(kings(b.data) \cap mask_from_colour(b.side)))

\* Fault model: try_push_move without the pin test.
try_push_move_unpinned(b, from, dest, kind, promotion_piece, pininfo) ==
  << Move(from, dest, kind, promotion_piece) >>

\* Board::try_push_move
try_push_move(b, from, dest, kind, promotion_piece, pininfo) ==
  LET dir == pininfo.pins[piece_index(b.data, from)]
      move_dir == direction(from, dest)
  IN IF dir # None /\ (move_dir = None
                       \/ (dir # move_dir /\ dir # opposite(move_dir)))
     THEN << >>
     ELSE << Move(from, dest, kind, promotion_piece) >>

\* The ray walk of discover_pinned_pieces from one pinner to the king:
\* << friendly_blocker, enemy_blocker >>.
RECURSIVE pin_scan(_, _, _, _, _, _)
pin_scan(b, ray, k, king_square, friendly_blocker, enemy_blocker) ==
  IF k > Len(ray) \/ ray[k] = king_square
  THEN << friendly_blocker, enemy_blocker >>
  ELSE LET index == piece_index(b.data, ray[k])
       IN IF index = None
          THEN pin_scan(b, ray, k + 1, king_square,
                        friendly_blocker, enemy_blocker)
          ELSE IF colour_from_square(b.data, ray[k]) = Not(b.side)
               THEN IF enemy_blocker # None THEN << None, None >>
                    ELSE pin_scan(b, ray, k + 1, king_square,
                                  friendly_blocker, index)
               ELSE IF friendly_blocker # None THEN << None, None >>
                    ELSE pin_scan(b, ray, k + 1, king_square,
                                  index, enemy_blocker)

\* Fault model: the loop body that records the friendly blocker as pinned
\* whether or not an enemy piece stands on the ray as well.
pin_step_any_blocker(b, info, possible_pinner) ==
  LET king_square == own_king_square(b)
      pinner_square == square_of_piece(b.data, possible_pinner)
      pinner_type == piece_from_bit(b.data, possible_pinner)
  IN
  Let(direction16(from_square(pinner_square), from_square(king_square)),
      LAMBDA pinner_king_dir :
  IF pinner_king_dir = None THEN info
  ELSE IF ~valid_for_slider(pinner_king_dir, pinner_type) THEN info
  ELSE
  Let(pin_scan(b, ray_attacks(from_square(pinner_square), pinner_king_dir),
               1, king_square, None, None), LAMBDA blockers :
  IF blockers[1] = None THEN info
  ELSE [info EXCEPT !.pins[blockers[1]] = pinner_king_dir]))

\* One iteration of the loop over possible pinners.
pin_step(b, info, possible_pinner) ==
  LET king_square == own_king_square(b)
      pinner_square == square_of_piece(b.data, possible_pinner)
      pinner_type == piece_from_bit(b.data, possible_pinner)
  IN
  Let(direction16(from_square(pinner_square), from_square(king_square)),
      LAMBDA pinner_king_dir :
  IF pinner_king_dir = None THEN info
  ELSE IF ~valid_for_slider(pinner_king_dir, pinner_type) THEN info
  ELSE
  Let(pin_scan(b, ray_attacks(from_square(pinner_square), pinner_king_dir),
               1, king_square, None, None), LAMBDA blockers :
  IF blockers[1] = None THEN info
  ELSE IF blockers[2] = None
       THEN [info EXCEPT !.pins[blockers[1]] = pinner_king_dir]
  ELSE IF piece_from_bit(b.data, blockers[1]) # Pawn
          \/ piece_from_bit(b.data, blockers[2]) # Pawn
          \/ (pinner_king_dir # East /\ pinner_king_dir # West)
       THEN info
  ELSE [info EXCEPT !.enpassant_pinned = @ \cup {blockers[1]}]))

\* Board::discover_pinned_pieces
discover_pinned_pieces(b) ==
  LET sliders == bishops(b.data) \cup rooks(b.data) \cup queens(b.data)
  IN Fold(LAMBDA info, possible_pinner : pin_step(b, info, possible_pinner),
          NewPinInfo,
          BitlistIter(pieces_of_colour(b.data, Not(b.side)) \cap sliders))

\* The four promotion moves, in the order the source pushes them.
push_promotions(b, from, dest, kind, pininfo) ==
  try_push_move(b, from, dest, kind, Queen, pininfo)
  \o try_push_move(b, from, dest, kind, Knight, pininfo)
  \o try_push_move(b, from, dest, kind, Rook, pininfo)
  \o try_push_move(b, from, dest, kind, Bishop, pininfo)

\* Fault model: generate_pawn_enpassant that forgets the en-passant-pinned
\* pawns.
generate_pawn_enpassant_all(b, pininfo) ==
  IF b.ep = None THEN << >>
  ELSE ForEach(
         BitlistIter(attacks_to(b.data, b.ep, b.side) \cap pawns(b.data)),
         LAMBDA capturer :
           try_push_move(b, square_of_piece(b.data, capturer), b.ep,
                         "EnPassant", None, pininfo))

\* Board::generate_pawn_enpassant
generate_pawn_enpassant(b, pininfo) ==
  IF b.ep = None THEN << >>
  ELSE ForEach(
         BitlistIter((attacks_to(b.data, b.ep, b.side) \cap pawns(b.data))
                     \ pininfo.enpassant_pinned),
         LAMBDA capturer :
           try_push_move(b, square_of_piece(b.data, capturer), b.ep,
                         "EnPassant", None, pininfo))

\* Board::generate_pawn_quiet
generate_pawn_quiet(b, from, pininfo) ==
  LET dest == relative_north(from, b.side)
      north2 == IF dest = None THEN None ELSE relative_north(dest, b.side)
  IN IF dest = None THEN << >>
     ELSE IF has_piece(b.data, dest) THEN << >>
     ELSE (IF is_relative_eighth(RankOf(dest), b.side)
           THEN push_promotions(b, from, dest, "Promotion", pininfo)
           ELSE try_push_move(b, from, dest, "Normal", None, pininfo))
          \o (IF north2 # None
                 /\ is_relative_fourth(RankOf(north2), b.side)
                 /\ ~has_piece(b.data, north2)
              THEN try_push_move(b, from, north2, "DoublePush", None, pininfo)
              ELSE << >>)

\* The x-ray test on a king move: the square lies directly behind the king
\* on the ray of a checking bishop, rook or queen.
xray_blocked(king_square, square, attacker_piece, attacker_direction) ==
  /\ attacker_direction # None
  /\ travel(king_square, attacker_direction) # None
  /\ attacker_piece \in {Bishop, Rook, Queen}
  /\ travel(king_square, attacker_direction) = square

\* The closures add_pawn_block / add_pawn_blocks of generate_single_check.
add_pawn_block(b, from, dest, kind, pininfo) ==
  IF colour_from_square(b.data, from) = b.side
  THEN try_push_move(b, from, dest, kind, None, pininfo)
  ELSE << >>

add_pawn_blocks(b, dest, pininfo) ==
  LET from == relative_south(dest, b.side)
      from2 == IF from = None THEN None ELSE relative_south(from, b.side)
  IN IF from = None THEN << >>
     ELSE IF piece_from_square(b.data, from) = Pawn
          THEN add_pawn_block(b, from, dest, "Normal", pininfo)
     ELSE IF piece_from_square(b.data, from) # None THEN << >>
     ELSE IF is_relative_fourth(RankOf(dest), b.side)
             /\ from2 # None
             /\ piece_from_square(b.data, from2) = Pawn
          THEN add_pawn_block(b, from2, dest, "DoublePush", pininfo)
     ELSE << >>

\* Board::generate_single_check
generate_single_check(b) ==
  Let(own_king_square(b), LAMBDA king_square :
  Let(peek_nonzero(attacks_to(b.data, king_square, Not(b.side))),
      LAMBDA attacker_index :
  Let(piece_from_bit(b.data, attacker_index), LAMBDA attacker_piece :
  Let(square_of_piece(b.data, attacker_index), LAMBDA attacker_square :
  Let(direction(attacker_square, king_square), LAMBDA attacker_direction :
  Let(discover_pinned_pieces(b), LAMBDA pininfo :
  Let(IF attacker_piece \in {Bishop, Rook, Queen}
      THEN ray_attacks(from_square(king_square),
                       direction(king_square, attacker_square))
      ELSE << >>, LAMBDA block_ray :
  LET \* Can we capture the attacker?
      captures ==
        ForEach(BitlistIter(attacks_to(b.data, attacker_square, b.side)),
          LAMBDA capturer :
            LET from == square_of_piece(b.data, capturer)
            IN IF piece_from_bit(b.data, capturer) = King
                  /\ attacks_to(b.data, attacker_square, Not(b.side)) # {}
               THEN << >>
               ELSE IF piece_from_bit(b.data, capturer) = Pawn
                       /\ is_relative_eighth(RankOf(attacker_square), b.side)
               THEN push_promotions(b, from, attacker_square,
                                    "CapturePromotion", pininfo)
               ELSE try_push_move(b, from, attacker_square, "Capture", None,
                                  pininfo))
      ep_south == IF b.ep = None THEN None ELSE relative_south(b.ep, b.side)
      enpassant ==
        IF b.ep # None /\ ep_south # None /\ ep_south = attacker_square
           /\ attacker_piece = Pawn
        THEN ForEach(
               BitlistIter((attacks_to(b.data, b.ep, b.side) \cap pawns(b.data))
                           \ pininfo.enpassant_pinned),
               LAMBDA capturer :
                 try_push_move(b, square_of_piece(b.data, capturer), b.ep,
                               "EnPassant", None, pininfo))
        ELSE << >>
      \* Can we block the check?
      block_squares ==
        SubSeq(block_ray, 1,
               (CHOOSE k \in 1..(Len(block_ray) + 1) :
                  /\ (k <= Len(block_ray) => block_ray[k] = attacker_square)
                  /\ \A j \in 1..(k - 1) : block_ray[j] # attacker_square) - 1)
      blocks ==
        ForEach(block_squares,
          LAMBDA dest :
            ForEach(BitlistIter((attacks_to(b.data, dest, b.side)
                                 \ pawns(b.data)) \ kings(b.data)),
              LAMBDA attacker :
                try_push_move(b, square_of_piece(b.data, attacker), dest,
                              "Normal", None, pininfo))
            \o add_pawn_blocks(b, dest, pininfo))
      \* Can we move the king?
      king_moves ==
        ForEach(king_attacks(king_square),
          LAMBDA square :
            IF has_piece(b.data, square)
               /\ (square = attacker_square
                   \/ colour_from_square(b.data, square) = b.side)
            THEN << >>
            ELSE IF attacks_to(b.data, square, Not(b.side)) # {} THEN << >>
            ELSE IF xray_blocked(king_square, square, attacker_piece,
                                 attacker_direction)
            THEN << >>
            ELSE << Move(king_square, square,
                         IF has_piece(b.data, square) THEN "Capture"
                         ELSE "Normal",
                         None) >>)
  IN captures \o enpassant \o blocks \o king_moves)))))))

\* Fault model: generate_double_check without the x-ray test.
generate_double_check_no_xray(b) ==
  Let(own_king_square(b), LAMBDA king_square :
     ForEach(king_attacks(king_square),
       LAMBDA square :
         IF has_piece(b.data, square)
            /\ colour_from_square(b.data, square) = b.side
         THEN << >>
         ELSE IF attacks_to(b.data, square, Not(b.side)) # {} THEN << >>
         ELSE << Move(king_square, square,
                      IF has_piece(b.data, square) THEN "Capture"
                      ELSE "Normal",
                      None) >>))

\* Board::generate_double_check
generate_double_check(b) ==
  Let(own_king_square(b), LAMBDA king_square :
  Let(attacks_to(b.data, king_square, Not(b.side)), LAMBDA attacker_bits :
  Let(peek_nonzero(attacker_bits), LAMBDA attacker1_index :
  Let(piece_from_bit(b.data, attacker1_index), LAMBDA attacker1_piece :
  Let(direction(square_of_piece(b.data, attacker1_index), king_square),
      LAMBDA attacker1_direction :
  Let(peek_nonzero(attacker_bits \ {attacker1_index}),
      LAMBDA attacker2_index :
  Let(piece_from_bit(b.data, attacker2_index), LAMBDA attacker2_piece :
  Let(direction(square_of_piece(b.data, attacker2_index), king_square),
      LAMBDA attacker2_direction :
     ForEach(king_attacks(king_square),
       LAMBDA square :
         IF has_piece(b.data, square)
            /\ colour_from_square(b.data, square) = b.side
         THEN << >>
         ELSE IF attacks_to(b.data, square, Not(b.side)) # {} THEN << >>
         ELSE IF xray_blocked(king_square, square, attacker1_piece,
                              attacker1_direction)
         THEN << >>
         ELSE IF xray_blocked(king_square, square, attacker2_piece,
                              attacker2_direction)
         THEN << >>
         ELSE << Move(king_square, square,
                      IF has_piece(b.data, square) THEN "Capture"
                      ELSE "Normal",
                      None) >>)))))))))

\* The closure find_attackers of generate_captures.
find_attackers(b, dest, pininfo) ==
  LET attacks == attacks_to(b.data, dest, b.side)
      plain(bits) ==
        ForEach(BitlistIter(attacks \cap bits),
          LAMBDA capturer :
            try_push_move(b, square_of_piece(b.data, capturer), dest,
                          "Capture", None, pininfo))
  IN ForEach(BitlistIter(attacks \cap pawns(b.data)),
       LAMBDA capturer :
         IF is_relative_eighth(RankOf(dest), b.side)
         THEN push_promotions(b, square_of_piece(b.data, capturer), dest,
                              "CapturePromotion", pininfo)
         ELSE try_push_move(b, square_of_piece(b.data, capturer), dest,
                            "Capture", None, pininfo))
     \o plain(knights(b.data))
     \o plain(bishops(b.data))
     \o plain(rooks(b.data))
     \o plain(queens(b.data))
     \o ForEach(BitlistIter(attacks \cap kings(b.data)),
          LAMBDA capturer :
            IF attacks_to(b.data, dest, Not(b.side)) # {} THEN << >>
            ELSE try_push_move(b, square_of_piece(b.data, capturer), dest,
                               "Capture", None, pininfo))

\* Fault model: generate_captures with a loop over the enemy king as a
\* victim ahead of the other loops.
generate_captures_kings_too(b) ==
  Let(discover_pinned_pieces(b), LAMBDA pininfo :
  LET enemy == pieces_of_colour(b.data, Not(b.side))
      victims(bits) ==
        ForEach(BitlistIter(enemy \cap bits),
          LAMBDA victim :
            find_attackers(b, square_of_piece(b.data, victim), pininfo))
  IN victims(kings(b.data))
     \o victims(queens(b.data))
     \o victims(rooks(b.data))
     \o victims(bishops(b.data))
     \o victims(knights(b.data))
     \o victims(pawns(b.data))
     \o generate_pawn_enpassant(b, pininfo))

\* Board::generate_captures
generate_captures(b) ==
  Let(discover_pinned_pieces(b), LAMBDA pininfo :
  LET enemy == pieces_of_colour(b.data, Not(b.side))
      victims(bits) ==
        ForEach(BitlistIter(enemy \cap bits),
          LAMBDA victim :
            find_attackers(b, square_of_piece(b.data, victim), pininfo))
  IN victims(queens(b.data))
     \o victims(rooks(b.data))
     \o victims(bishops(b.data))
     \o victims(knights(b.data))
     \o victims(pawns(b.data))
     \o generate_pawn_enpassant(b, pininfo))

\* Fault model: a generate that never castles.
generate_castling_none(b, king_square, pininfo) == << >>

\* Fault model: queen-side castling that also wants the b-file square
\* unattacked.
generate_castling_b_safe(b, king_square, pininfo) ==
  LET east1 == travel(king_square, East)
      east2 == travel(east1, East)
      west1 == travel(king_square, West)
      west2 == travel(west1, West)
      west3 == travel(west2, West)
      safe(square) == attacks_to(b.data, square, Not(b.side)) = {}
  IN (IF ((b.side = White /\ b.castle[1]) \/ (b.side = Black /\ b.castle[3]))
         /\ safe(king_square)
         /\ ~has_piece(b.data, east1) /\ safe(east1)
         /\ ~has_piece(b.data, east2) /\ safe(east2)
      THEN try_push_move(b, king_square, east2, "Castle", None, pininfo)
      ELSE << >>)
     \o
     (IF ((b.side = White /\ b.castle[2]) \/ (b.side = Black /\ b.castle[4]))
         /\ safe(king_square)
         /\ ~has_piece(b.data, west1) /\ safe(west1)
         /\ ~has_piece(b.data, west2) /\ safe(west2)
         /\ ~has_piece(b.data, west3) /\ safe(west3)
      THEN try_push_move(b, king_square, west2, "Castle", None, pininfo)
      ELSE << >>)

\* The castling part of Board::generate.
generate_castling(b, king_square, pininfo) ==
  LET east1 == travel(king_square, East)
      east2 == travel(east1, East)
      west1 == travel(king_square, West)
      west2 == travel(west1, West)
      west3 == travel(west2, West)
      safe(square) == attacks_to(b.data, square, Not(b.side)) = {}
  IN (IF ((b.side = White /\ b.castle[1]) \/ (b.side = Black /\ b.castle[3]))
         /\ safe(king_square)
         /\ ~has_piece(b.data, east1) /\ safe(east1)
         /\ ~has_piece(b.data, east2) /\ safe(east2)
      THEN try_push_move(b, king_square, east2, "Castle", None, pininfo)
      ELSE << >>)
     \o
     (IF ((b.side = White /\ b.castle[2]) \/ (b.side = Black /\ b.castle[4]))
         /\ safe(king_square)
         /\ ~has_piece(b.data, west1) /\ safe(west1)
         /\ ~has_piece(b.data, west2) /\ safe(west2)
         /\ ~has_piece(b.data, west3)
      THEN try_push_move(b, king_square, west2, "Castle", None, pininfo)
      ELSE << >>)

\* The general quiet move loop of Board::generate.
generate_quiet(b, pininfo) ==
  ForEach([i \in 1..64 |-> i - 1],
    LAMBDA dest :
      IF has_piece(b.data, dest) THEN << >>
      ELSE ForEach(BitlistIter(attacks_to(b.data, dest, b.side) \ pawns(b.data)),
             LAMBDA attacker :
               IF piece_from_bit(b.data, attacker) = King
                  /\ attacks_to(b.data, dest, Not(b.side)) # {}
               THEN << >>
               ELSE try_push_move(b, square_of_piece(b.data, attacker), dest,
                                  "Normal", None, pininfo)))

\* Board::generate
generate(b) ==
  Let(own_king_square(b), LAMBDA king_square :
  Let(attacks_to(b.data, king_square, Not(b.side)), LAMBDA checks :
  IF Cardinality(checks) = 1 THEN generate_single_check(b)
  ELSE IF Cardinality(checks) = 2 THEN generate_double_check(b)
  ELSE
  Let(discover_pinned_pieces(b), LAMBDA pininfo :
    generate_captures(b)
    \o ForEach(BitlistIter(pawns(b.data) \cap mask_from_colour(b.side)),
         LAMBDA pawn :
           generate_pawn_quiet(b, square_of_piece(b.data, pawn), pininfo))
    \o generate_quiet(b, pininfo)
    \o generate_castling(b, king_square, pininfo))))

\* ---- lib.rs --------------------------------------------------------------
\* perft
RECURSIVE perft(_, _)
perft(b, depth) ==
  IF depth = 0 THEN 1
  ELSE IF depth = 1 THEN Len(generate(b))
  ELSE Fold(LAMBDA count, m :
              Let(make(b, m), LAMBDA child : count + perft(child, depth - 1)),
            0, generate(b))


\* ---- board/mod.rs: generate_captures_incremental -------------------------
\* The emission so far: out is the list of the moves passed to the
\* continuation f, go is false once a call of f has returned false and the
\* `return false` / `return` of the callers is being taken.
NewEmission == [out |-> << >>, go |-> TRUE]

\* One call f(m) of the continuation.  A continuation is described by stop,
\* the number of the call that returns false (0: it always returns true);
\* what the emitter does depends on the continuation through this number
\* only.
call_f(st, m, stop) ==
  [out |-> Append(st.out, m), go |-> Len(st.out) + 1 # stop]

\* `victim_type < Piece::X`: the order of the declaration of Piece.
piece_lt(a, b) == a < b

\* Fault model: try_move reports true to its caller whatever f returned.
try_move_deaf(b, st, from, dest, kind, promotion_piece, pininfo, stop) ==
  LET dir == pininfo.pins[piece_index(b.data, from)]
      move_dir == direction(from, dest)
  IN IF dir # None /\ (move_dir = None
                       \/ (dir # move_dir /\ dir # opposite(move_dir)))
     THEN st
     ELSE [call_f(st, Move(from, dest, kind, promotion_piece), stop)
             EXCEPT !.go = TRUE]

\* The closure try_move together with the `if !try_move(..) { return false; }`
\* around each of its calls: after a false result no later statement of
\* find_attackers or of the victim loops runs.
try_move(b, st, from, dest, kind, promotion_piece, pininfo, stop) ==
  LET dir == pininfo.pins[piece_index(b.data, from)]
      move_dir == direction(from, dest)
  IN IF ~st.go THEN st
     ELSE IF dir # None
     THEN IF move_dir # None /\ (dir = move_dir \/ dir = opposite(move_dir))
          THEN call_f(st, Move(from, dest, kind, promotion_piece), stop)
          ELSE st
     ELSE call_f(st, Move(from, dest, kind, promotion_piece), stop)

\* The body of the loop over the capturing pawns.
try_pawn_capture(b, st, from, dest, pininfo, stop) ==
  IF is_relative_eighth(RankOf(dest), b.side)
  THEN
    Let(try_move(b, st, from, dest, "CapturePromotion", Queen, pininfo, stop),
        LAMBDA s1 :
    Let(try_move(b, s1, from, dest, "CapturePromotion", Knight, pininfo, stop),
        LAMBDA s2 :
    Let(try_move(b, s2, from, dest, "CapturePromotion", Rook, pininfo, stop),
        LAMBDA s3 :
    try_move(b, s3, from, dest, "CapturePromotion", Bishop, pininfo, stop))))
  ELSE try_move(b, st, from, dest, "Capture", None, pininfo, stop)

\* One of the loops `for capturer in attacks & bits` of find_attackers;
\* bad is the test that makes the loop `continue`.
capture_loop(b, st, dest, bits, bad, pininfo, stop) ==
  Fold(LAMBDA s, capturer :
         IF bad THEN s
         ELSE try_move(b, s, square_of_piece(b.data, capturer), dest,
                       "Capture", None, pininfo, stop),
       st, BitlistIter(bits))

\* Fault model: find_attackers with the loop over the king ahead of the
\* other loops.
find_attackers_king_first(b, st, dest, victim_type, masks, pininfo, stop) ==
  Let(attacks_to(b.data, dest, b.side), LAMBDA attacks :
  Let(attacks_to(b.data, dest, Not(b.side)), LAMBDA defended :
  Let(capture_loop(b, st, dest, attacks \cap kings(b.data),
                   defended # {}, pininfo, stop), LAMBDA s1 :
  Let(Fold(LAMBDA s, capturer :
             try_pawn_capture(b, s, square_of_piece(b.data, capturer), dest,
                              pininfo, stop),
           s1, BitlistIter(attacks \cap pawns(b.data))), LAMBDA s2 :
  capture_loop(b, s2, dest, attacks \ (pawns(b.data) \cup kings(b.data)),
               FALSE, pininfo, stop)))))

\* The closure find_attackers of generate_captures_incremental.  masks is
\* << minor_mask, rook_mask, queen_mask >>.
find_attackers_incremental(b, st, dest, victim_type, masks, pininfo, stop) ==
  Let(attacks_to(b.data, dest, b.side), LAMBDA attacks :
  Let(attacks_to(b.data, dest, Not(b.side)), LAMBDA defended :
  Let(Fold(LAMBDA s, capturer :
             try_pawn_capture(b, s, square_of_piece(b.data, capturer), dest,
                              pininfo, stop),
           st, BitlistIter(attacks \cap pawns(b.data))), LAMBDA s1 :
  Let(capture_loop(b, s1, dest,
                   attacks \cap (knights(b.data) \cup bishops(b.data)),
                   piece_lt(victim_type, Bishop)
                     /\ defended \cap masks[1] # {},
                   pininfo, stop), LAMBDA s2 :
  Let(capture_loop(b, s2, dest, attacks \cap rooks(b.data),
                   piece_lt(victim_type, Rook) /\ defended \cap masks[2] # {},
                   pininfo, stop), LAMBDA s3 :
  Let(capture_loop(b, s3, dest, attacks \cap queens(b.data),
                   piece_lt(victim_type, Queen) /\ defended \cap masks[3] # {},
                   pininfo, stop), LAMBDA s4 :
  capture_loop(b, s4, dest, attacks \cap kings(b.data),
               defended # {}, pininfo, stop)))))))

\* One of the loops `for victim in ...` of generate_captures_incremental.
victim_loop(b, st, bits, victim_type, masks, pininfo, stop) ==
  Fold(LAMBDA s, victim :
         IF ~s.go THEN s
         ELSE find_attackers_incremental(b, s, square_of_piece(b.data, victim),
                                         victim_type, masks, pininfo, stop),
       st, BitlistIter(bits))

\* Board::generate_captures_incremental: the moves passed to a continuation
\* that returns false at its call number stop.
generate_captures_incremental(b, stop) ==
  Let(discover_pinned_pieces(b), LAMBDA pininfo :
  Let(pieces_of_colour(b.data, Not(b.side)), LAMBDA enemy :
  Let(enemy \cap pawns(b.data), LAMBDA pawn_mask :
  Let(enemy \cap (knights(b.data) \cup bishops(b.data)), LAMBDA minors :
  Let(victim_loop(b, NewEmission, enemy \cap queens(b.data), Queen,
                  << pawn_mask, pawn_mask, pawn_mask >>, pininfo, stop),
      LAMBDA s1 :
  Let(victim_loop(b, s1, enemy \cap rooks(b.data), Rook,
                  << pawn_mask, pawn_mask, pawn_mask \cup minors >>,
                  pininfo, stop), LAMBDA s2 :
  Let(victim_loop(b, s2, minors, Bishop,
                  << pawn_mask, pawn_mask,
                     pawn_mask \cup minors \cup (enemy \cap rooks(b.data)) >>,
                  pininfo, stop), LAMBDA s3 :
  Let(victim_loop(b, s3, pawn_mask, Pawn,
                  << pawn_mask, pawn_mask \cup minors,
                     pawn_mask \cup minors \cup (enemy \cap rooks(b.data)) >>,
                  pininfo, stop), LAMBDA s4 :
  s4.out))))))))
\* ---- starting positions -------------------------------------------------
\* FEN texts, each the sequence of its bytes.
Fens ==
  <<
    \* 1: 4k3/8/8/8/8/8/8/4K2R w K - 0 1
    << 52, 107, 51, 47, 56, 47, 56, 47, 56, 47, 56, 47, 56, 47, 56, 47, 52,
       75, 50, 82, 32, 119, 32, 75, 32, 45, 32, 48, 32, 49 >>,
    \* 2: r3k3/8/8/8/8/8/8/4K3 b q - 0 1
    << 114, 51, 107, 51, 47, 56, 47, 56, 47, 56, 47, 56, 47, 56, 47, 56, 47,
       52, 75, 51, 32, 98, 32, 113, 32, 45, 32, 48, 32, 49 >>,
    \* 3: K6r/3P4/8/8/8/8/8/k7 w - - 0 1
    << 75, 54, 114, 47, 51, 80, 52, 47, 56, 47, 56, 47, 56, 47, 56, 47, 56,
       47, 107, 55, 32, 119, 32, 45, 32, 45, 32, 48, 32, 49 >>,
    \* 4: 1n2k3/P7/8/8/8/8/8/4K3 w - - 0 1
    << 49, 110, 50, 107, 51, 47, 80, 55, 47, 56, 47, 56, 47, 56, 47, 56, 47,
       56, 47, 52, 75, 51, 32, 119, 32, 45, 32, 45, 32, 48, 32, 49 >>,
    \* 5: k7/8/8/8/Pp6/8/8/K7 b - a3 0 1
    << 107, 55, 47, 56, 47, 56, 47, 56, 47, 80, 112, 54, 47, 56, 47, 56, 47,
       75, 55, 32, 98, 32, 45, 32, 97, 51, 32, 48, 32, 49 >>,
    \* 6: 8/8/8/8/k2Pp2R/8/8/K7 b - d3 0 1
    << 56, 47, 56, 47, 56, 47, 56, 47, 107, 50, 80, 112, 50, 82, 47, 56, 47,
       56, 47, 75, 55, 32, 98, 32, 45, 32, 100, 51, 32, 48, 32, 49 >>,
    \* 7: 4k3/8/8/8/4N3/8/8/4RK2 w - - 0 1
    << 52, 107, 51, 47, 56, 47, 56, 47, 56, 47, 52, 78, 51, 47, 56, 47, 56,
       47, 52, 82, 75, 50, 32, 119, 32, 45, 32, 45, 32, 48, 32, 49 >>,
    \* 8: 8/8/8/8/8/4k3/4P3/4K3 w - - 0 1
    << 56, 47, 56, 47, 56, 47, 56, 47, 56, 47, 52, 107, 51, 47, 52, 80, 51,
       47, 52, 75, 51, 32, 119, 32, 45, 32, 45, 32, 48, 32, 49 >>,
    \* 9: K7/p7/k7/8/8/8/8/8 w - - 0 1
    << 75, 55, 47, 112, 55, 47, 107, 55, 47, 56, 47, 56, 47, 56, 47, 56, 47,
       56, 32, 119, 32, 45, 32, 45, 32, 48, 32, 49 >>,
    \* 10: k7/8/3p4/8/3P4/8/8/7K w - - 0 1
    << 107, 55, 47, 56, 47, 51, 112, 52, 47, 56, 47, 51, 80, 52, 47, 56, 47,
       56, 47, 55, 75, 32, 119, 32, 45, 32, 45, 32, 48, 32, 49 >>,
    \* 11: k7/8/8/8/1pP5/8/8/K7 b - c3 0 1
    << 107, 55, 47, 56, 47, 56, 47, 56, 47, 49, 112, 80, 53, 47, 56, 47, 56,
       47, 75, 55, 32, 98, 32, 45, 32, 99, 51, 32, 48, 32, 49 >>,
    \* 12: 4k3/4r3/8/8/8/8/4N3/4K3 w - - 0 1
    << 52, 107, 51, 47, 52, 114, 51, 47, 56, 47, 56, 47, 56, 47, 56, 47, 52,
       78, 51, 47, 52, 75, 51, 32, 119, 32, 45, 32, 45, 32, 48, 32, 49 >>,
    \* 13: 8/8/8/2k5/3Pp3/8/8/4K3 b - d3 0 1
    << 56, 47, 56, 47, 56, 47, 50, 107, 53, 47, 51, 80, 112, 51, 47, 56, 47,
       56, 47, 52, 75, 51, 32, 98, 32, 45, 32, 100, 51, 32, 48, 32, 49 >>,
    \* 14: 4k3/8/8/8/8/8/4P3/4K3 w - - 0 1
    << 52, 107, 51, 47, 56, 47, 56, 47, 56, 47, 56, 47, 56, 47, 52, 80, 51,
       47, 52, 75, 51, 32, 119, 32, 45, 32, 45, 32, 48, 32, 49 >>
  >>

\* The starting positions of the runs that call the capture generators.
CaptureFens ==
  <<
    \* 1: 7k/8/8/8/8/2pn4/N7/4K3 w - - 0 1
    << 55, 107, 47, 56, 47, 56, 47, 56, 47, 56, 47, 50, 112, 110, 52, 47,
       78, 55, 47, 52, 75, 51, 32, 119, 32, 45, 32, 45, 32, 48, 32, 49 >>,
    \* 2: 7k/8/8/2n1b3/1K1P4/2p5/8/8 w - - 0 1
    << 55, 107, 47, 56, 47, 56, 47, 50, 110, 49, 98, 51, 47, 49, 75, 49, 80,
       52, 47, 50, 112, 53, 47, 56, 47, 56, 32, 119, 32, 45, 32, 45, 32, 48,
       32, 49 >>,
    \* 3: k7/8/8/8/1pP5/8/8/K7 b - c3 0 1
    << 107, 55, 47, 56, 47, 56, 47, 56, 47, 49, 112, 80, 53, 47, 56, 47, 56,
       47, 75, 55, 32, 98, 32, 45, 32, 99, 51, 32, 48, 32, 49 >>
  >>

\* The starting positions of the runs on castling, castling rights, the
\* en-passant target and double check.
MoveFens ==
  <<
    \* 1: 4k3/8/8/8/8/n7/8/R3K3 w Q - 0 1
    << 52, 107, 51, 47, 56, 47, 56, 47, 56, 47, 56, 47, 110, 55, 47, 56, 47,
       82, 51, 75, 51, 32, 119, 32, 81, 32, 45, 32, 48, 32, 49 >>,
    \* 2: r3k3/p7/1N6/8/8/8/7P/4K2R w Kq - 0 1
    << 114, 51, 107, 51, 47, 112, 55, 47, 49, 78, 54, 47, 56, 47, 56, 47,
       56, 47, 55, 80, 47, 52, 75, 50, 82, 32, 119, 32, 75, 113, 32, 45, 32,
       48, 32, 49 >>,
    \* 3: k3r3/8/8/8/5n2/8/4K3/8 w - - 0 1
    << 107, 51, 114, 51, 47, 56, 47, 56, 47, 56, 47, 53, 110, 50, 47, 56,
       47, 52, 75, 51, 47, 56, 32, 119, 32, 45, 32, 45, 32, 48, 32, 49 >>,
    \* 4: 4k3/4p3/8/8/8/8/4P3/4K3 w - - 0 1
    << 52, 107, 51, 47, 52, 112, 51, 47, 56, 47, 56, 47, 56, 47, 56, 47, 52,
       80, 51, 47, 52, 75, 51, 32, 119, 32, 45, 32, 45, 32, 48, 32, 49 >>,
    \* 5: k7/8/8/8/1pP5/8/8/K7 b - c3 0 1
    << 107, 55, 47, 56, 47, 56, 47, 56, 47, 49, 112, 80, 53, 47, 56, 47, 56,
       47, 75, 55, 32, 98, 32, 45, 32, 99, 51, 32, 48, 32, 49 >>
  >>

\* The starting positions of the runs on pinned pieces.
PinFens ==
  <<
    \* 1: 4k3/4r3/8/8/8/2b5/3PN3/4K3 w - - 0 1
    << 52, 107, 51, 47, 52, 114, 51, 47, 56, 47, 56, 47, 56, 47, 50, 98, 53,
       47, 51, 80, 78, 51, 47, 52, 75, 51, 32, 119, 32, 45, 32, 45, 32, 48,
       32, 49 >>,
    \* 2: 4k3/4r3/8/8/8/3p1p2/4P3/4K3 w - - 0 1
    << 52, 107, 51, 47, 52, 114, 51, 47, 56, 47, 56, 47, 56, 47, 51, 112,
       49, 112, 50, 47, 52, 80, 51, 47, 52, 75, 51, 32, 119, 32, 45, 32, 45,
       32, 48, 32, 49 >>,
    \* 3: 8/8/8/8/k2Pp2R/8/8/K7 b - d3 0 1
    << 56, 47, 56, 47, 56, 47, 56, 47, 107, 50, 80, 112, 50, 82, 47, 56, 47,
       56, 47, 75, 55, 32, 98, 32, 45, 32, 100, 51, 32, 48, 32, 49 >>,
    \* 4: 4k3/4r3/8/8/8/8/4R3/4K3 w - - 0 1
    << 52, 107, 51, 47, 52, 114, 51, 47, 56, 47, 56, 47, 56, 47, 56, 47, 52,
       82, 51, 47, 52, 75, 51, 32, 119, 32, 45, 32, 45, 32, 48, 32, 49 >>,
    \* 5: 4k3/4r3/4n3/8/8/8/4N3/4K3 w - - 0 1
    << 52, 107, 51, 47, 52, 114, 51, 47, 52, 110, 51, 47, 56, 47, 56, 47,
       56, 47, 52, 78, 51, 47, 52, 75, 51, 32, 119, 32, 45, 32, 45, 32, 48,
       32, 49 >>
  >>

\* The perft tests of lib.rs: the position and the expected leaf counts at
\* depths 1, 2, ...
PerftTests ==
  <<
    \* perft_test1: rnbqkbnr/pppppppp/8/8/8/8/PPPPPPPP/RNBQKBNR w KQkq - 0 1
    [fen |->
       << 114, 110, 98, 113, 107, 98, 110, 114, 47, 112, 112, 112, 112, 112,
          112, 112, 112, 47, 56, 47, 56, 47, 56, 47, 56, 47, 80, 80, 80, 80,
          80, 80, 80, 80, 47, 82, 78, 66, 81, 75, 66, 78, 82, 32, 119, 32,
          75, 81, 107, 113, 32, 45, 32, 48, 32, 49 >>,
     counts |-> << 20, 400, 8902 >>],
    \* perft_test3: 4k3/8/8/8/8/8/8/4K2R w K - 0 1
    [fen |->
       << 52, 107, 51, 47, 56, 47, 56, 47, 56, 47, 56, 47, 56, 47, 56, 47,
          52, 75, 50, 82, 32, 119, 32, 75, 32, 45, 32, 48, 32, 49 >>,
     counts |-> << 15, 66, 1197 >>],
    \* perft_test5: 4k2r/8/8/8/8/8/8/4K3 w k - 0 1
    [fen |->
       << 52, 107, 50, 114, 47, 56, 47, 56, 47, 56, 47, 56, 47, 56, 47, 56,
          47, 52, 75, 51, 32, 119, 32, 107, 32, 45, 32, 48, 32, 49 >>,
     counts |-> << 5, 75, 459 >>],
    \* perft_test11: 4k2r/6K1/8/8/8/8/8/8 w k - 0 1
    [fen |->
       << 52, 107, 50, 114, 47, 54, 75, 49, 47, 56, 47, 56, 47, 56, 47, 56,
          47, 56, 47, 56, 32, 119, 32, 107, 32, 45, 32, 48, 32, 49 >>,
     counts |-> << 3, 32, 134, 2073 >>],
    \* perft_test13: r3k2r/8/8/8/8/8/8/R3K2R w KQkq - 0 1
    [fen |->
       << 114, 51, 107, 50, 114, 47, 56, 47, 56, 47, 56, 47, 56, 47, 56, 47,
          56, 47, 82, 51, 75, 50, 82, 32, 119, 32, 75, 81, 107, 113, 32, 45,
          32, 48, 32, 49 >>,
     counts |-> << 26, 568 >>],
    \* perft_test37: 8/1n4N1/2k5/8/8/5K2/1N4n1/8 w - - 0 1
    [fen |->
       << 56, 47, 49, 110, 52, 78, 49, 47, 50, 107, 53, 47, 56, 47, 56, 47,
          53, 75, 50, 47, 49, 78, 52, 110, 49, 47, 56, 32, 119, 32, 45, 32,
          45, 32, 48, 32, 49 >>,
     counts |-> << 14, 195, 2760 >>],
    \* perft_test47: B6b/8/8/8/2K5/4k3/8/b6B w - - 0 1
    [fen |->
       << 66, 54, 98, 47, 56, 47, 56, 47, 56, 47, 50, 75, 53, 47, 52, 107,
          51, 47, 56, 47, 98, 54, 66, 32, 119, 32, 45, 32, 45, 32, 48, 32,
          49 >>,
     counts |-> << 17, 278 >>],
    \* perft_test55: 7k/RR6/8/8/8/8/rr6/7K w - - 0 1
    [fen |->
       << 55, 107, 47, 82, 82, 54, 47, 56, 47, 56, 47, 56, 47, 56, 47, 114,
          114, 54, 47, 55, 75, 32, 119, 32, 45, 32, 45, 32, 48, 32, 49 >>,
     counts |-> << 19, 275 >>],
    \* perft_test59: 6kq/8/8/8/8/8/8/7K w - - 0 1
    [fen |->
       << 54, 107, 113, 47, 56, 47, 56, 47, 56, 47, 56, 47, 56, 47, 56, 47,
          55, 75, 32, 119, 32, 45, 32, 45, 32, 48, 32, 49 >>,
     counts |-> << 2, 36, 143 >>],
    \* perft_test61: K7/8/8/3Q4/4q3/8/8/7k w - - 0 1
    [fen |->
       << 75, 55, 47, 56, 47, 56, 47, 51, 81, 52, 47, 52, 113, 51, 47, 56,
          47, 56, 47, 55, 107, 32, 119, 32, 45, 32, 45, 32, 48, 32, 49 >>,
     counts |-> << 6, 35, 495 >>],
    \* perft_test65: 8/8/8/8/8/K7/P7/k7 w - - 0 1
    [fen |->
       << 56, 47, 56, 47, 56, 47, 56, 47, 56, 47, 75, 55, 47, 80, 55, 47,
          107, 55, 32, 119, 32, 45, 32, 45, 32, 48, 32, 49 >>,
     counts |-> << 3, 7, 43, 199, 1347 >>],
    \* perft_test67: K7/p7/k7/8/8/8/8/8 w - - 0 1
    [fen |->
       << 75, 55, 47, 112, 55, 47, 107, 55, 47, 56, 47, 56, 47, 56, 47, 56,
          47, 56, 32, 119, 32, 45, 32, 45, 32, 48, 32, 49 >>,
     counts |-> << 1, 3, 12, 80, 342, 2343 >>],
    \* perft_test69: 8/2k1p3/3pP3/3P2K1/8/8/8/8 w - - 0 1
    [fen |->
       << 56, 47, 50, 107, 49, 112, 51, 47, 51, 112, 80, 51, 47, 51, 80, 50,
          75, 49, 47, 56, 47, 56, 47, 56, 47, 56, 32, 119, 32, 45, 32, 45,
          32, 48, 32, 49 >>,
     counts |-> << 7, 35, 210, 1091 >>],
    \* perft_test75: 8/8/8/8/8/4k3/4P3/4K3 w - - 0 1
    [fen |->
       << 56, 47, 56, 47, 56, 47, 56, 47, 56, 47, 52, 107, 51, 47, 52, 80,
          51, 47, 52, 75, 51, 32, 119, 32, 45, 32, 45, 32, 48, 32, 49 >>,
     counts |-> << 2, 8, 44, 282, 1814 >>],
    \* perft_test82: k7/8/3p4/8/3P4/8/8/7K w - - 0 1
    [fen |->
       << 107, 55, 47, 56, 47, 51, 112, 52, 47, 56, 47, 51, 80, 52, 47, 56,
          47, 56, 47, 55, 75, 32, 119, 32, 45, 32, 45, 32, 48, 32, 49 >>,
     counts |-> << 4, 15, 90, 534 >>],
    \* perft_test89: 7k/3p4/8/8/3P4/8/8/K7 w - - 0 1
    [fen |->
       << 55, 107, 47, 51, 112, 52, 47, 56, 47, 56, 47, 51, 80, 52, 47, 56,
          47, 56, 47, 75, 55, 32, 119, 32, 45, 32, 45, 32, 48, 32, 49 >>,
     counts |-> << 4, 19, 117, 720 >>],
    \* perft_test95: k7/8/8/3p4/4p3/8/8/7K w - - 0 1
    [fen |->
       << 107, 55, 47, 56, 47, 56, 47, 51, 112, 52, 47, 52, 112, 51, 47, 56,
          47, 56, 47, 55, 75, 32, 119, 32, 45, 32, 45, 32, 48, 32, 49 >>,
     counts |-> << 3, 15, 84, 573 >>],
    \* perft_test111: 3k4/3pp3/8/8/8/8/3PP3/3K4 w - - 0 1
    [fen |->
       << 51, 107, 52, 47, 51, 112, 112, 51, 47, 56, 47, 56, 47, 56, 47, 56,
          47, 51, 80, 80, 51, 47, 51, 75, 52, 32, 119, 32, 45, 32, 45, 32,
          48, 32, 49 >>,
     counts |-> << 7, 49, 378, 2902 >>],
    \* perft_test119: 8/Pk6/8/8/8/8/6Kp/8 w - - 0 1
    [fen |->
       << 56, 47, 80, 107, 54, 47, 56, 47, 56, 47, 56, 47, 56, 47, 54, 75,
          112, 47, 56, 32, 119, 32, 45, 32, 45, 32, 48, 32, 49 >>,
     counts |-> << 11, 97, 887 >>],
    \* perft_test120: n1n5/1Pk5/8/8/8/8/5Kp1/5N1N w - - 0 1
    [fen |->
       << 110, 49, 110, 53, 47, 49, 80, 107, 53, 47, 56, 47, 56, 47, 56, 47,
          56, 47, 53, 75, 112, 49, 47, 53, 78, 49, 78, 32, 119, 32, 45, 32,
          45, 32, 48, 32, 49 >>,
     counts |-> << 24, 421 >>],
    \* perft_test121: 8/PPPk4/8/8/8/8/4Kppp/8 w - - 0 1
    [fen |->
       << 56, 47, 80, 80, 80, 107, 52, 47, 56, 47, 56, 47, 56, 47, 56, 47,
          52, 75, 112, 112, 112, 47, 56, 32, 119, 32, 45, 32, 45, 32, 48,
          32, 49 >>,
     counts |-> << 18, 270 >>]
  >>

\* ---- the state machine ---------------------------------------------------
\* The longest sequence of moves and null moves played from a position.
MaxPly == 3

\* board: the current position; prev: the position the last operation was
\* applied to; last: the last operation; ply: the number of operations so
\* far; fen: the index of the starting position; saved: the final position
\* of an earlier sequence from the same starting position, if any (a list of
\* at most one board); depth, nodes: the argument and the result of perft;
\* call: the last call of a capture generator, of the FEN parser or of the
\* transposition table's get on the current input, with its argument and
\* its result; tt: the transposition table; history: the calls made on the
\* transposition table since its construction, oldest first.
VARIABLES board, prev, last, ply, fen, saved, depth, nodes, call, tt, history

vars ==
  << board, prev, last, ply, fen, saved, depth, nodes, call, tt, history >>

\* The table of a run that constructs none: no entries, nothing counted.
NoTable == [table |-> << >>, histogram |-> [hits |-> 0, misses |-> 0]]

\* What `call` holds when no such call was made on the current position.
NoCall == [op |-> "none", arg |-> None, out |-> None]

\* What `last` holds before any move and after a null move.
NoMove == Move(None, None, "Start", None)

NullMove == Move(None, None, "Null", None)

\* Board::from_fen on one of the starting positions.
Init ==
  /\ fen \in DOMAIN Fens
  /\ \E parsed \in {from_fen_bytes(Fens[fen])} : board = parsed.board
  /\ prev = board
  /\ last = NoMove
  /\ ply = 0
  /\ saved = << >>
  /\ depth = 0
  /\ nodes = None
  /\ tt = NoTable
  /\ history = << >>
  /\ call = NoCall

\* board = board.make(m, zobrist) for a move m that generate appended.
Make ==
  /\ ply < MaxPly
  /\ \E v \in {generate(board)} :
       \E k \in 1..Len(v) :
         /\ board' = make(board, v[k])
         /\ last' = v[k]
  /\ prev' = board
  /\ ply' = ply + 1
  /\ call' = NoCall
  /\ UNCHANGED << fen, saved, depth, nodes,
                 tt, history >>

\* board = board.make_null(zobrist), called as the search calls it: when
\* the side to move is not in check.
MakeNull ==
  /\ ply < MaxPly
  /\ ~in_check(board)
  /\ board' = make_null(board)
  /\ last' = NullMove
  /\ prev' = board
  /\ ply' = ply + 1
  /\ call' = NoCall
  /\ UNCHANGED << fen, saved, depth, nodes,
                 tt, history >>

Next == Make \/ MakeNull

Spec == Init /\ [][Next]_vars

\* ---- two sequences from one starting position ----------------------------
\* The starting positions of the two-sequence runs.
PathFens == {11, 14}

InitPaths ==
  /\ fen \in PathFens
  /\ \E parsed \in {from_fen_bytes(Fens[fen])} : board = parsed.board
  /\ prev = board
  /\ last = NoMove
  /\ ply = 0
  /\ saved = << >>
  /\ depth = 0
  /\ nodes = None
  /\ tt = NoTable
  /\ history = << >>
  /\ call = NoCall

\* Keep the position the first sequence ended in and start the second
\* sequence from the starting position.
Restart ==
  /\ saved = << >>
  /\ ply > 0
  /\ saved' = << board >>
  /\ \E parsed \in {from_fen_bytes(Fens[fen])} : board' = parsed.board
  /\ prev' = board'
  /\ last' = NoMove
  /\ ply' = 0
  /\ UNCHANGED << fen, depth, nodes, call,
                 tt, history >>

NextPaths == Make \/ MakeNull \/ Restart

SpecPaths == InitPaths /\ [][NextPaths]_vars

\* ---- the perft tests -----------------------------------------------------
InitPerft ==
  /\ fen \in DOMAIN PerftTests
  /\ \E parsed \in {from_fen_bytes(PerftTests[fen].fen)} :
       board = parsed.board
  /\ prev = board
  /\ last = NoMove
  /\ ply = 0
  /\ saved = << >>
  /\ depth \in 1..Len(PerftTests[fen].counts)
  /\ nodes = None
  /\ tt = NoTable
  /\ history = << >>
  /\ call = NoCall

\* nodes = perft(&board, &zobrist, depth)
Perft ==
  /\ nodes = None
  /\ nodes' = perft(board, depth)
  /\ UNCHANGED << board, prev, last, ply, fen, saved, depth, call,
                 tt, history >>

NextPerft == Perft

SpecPerft == InitPerft /\ [][NextPerft]_vars


\* ---- the capture generators ----------------------------------------------
\* The largest number of the call at which a continuation returns false.
MaxStop == 3

InitCaptures ==
  /\ fen \in DOMAIN CaptureFens
  /\ \E parsed \in {from_fen_bytes(CaptureFens[fen])} : board = parsed.board
  /\ prev = board
  /\ last = NoMove
  /\ ply = 0
  /\ saved = << >>
  /\ depth = 0
  /\ nodes = None
  /\ tt = NoTable
  /\ history = << >>
  /\ call = NoCall

\* board.generate_captures(&mut v) on an empty list v.
GenerateCaptures ==
  /\ call' = [op |-> "generate_captures", arg |-> None,
              out |-> generate_captures(board)]
  /\ UNCHANGED << board, prev, last, ply, fen, saved, depth, nodes,
                 tt, history >>

\* board.generate_captures_incremental(f), as quiesce calls it, with a
\* continuation f that returns false at its call number stop (never when
\* stop is 0).
GenerateCapturesIncremental ==
  /\ \E stop \in 0..MaxStop :
       call' = [op |-> "generate_captures_incremental", arg |-> stop,
                out |-> generate_captures_incremental(board, stop)]
  /\ UNCHANGED << board, prev, last, ply, fen, saved, depth, nodes,
                 tt, history >>

NextCaptures ==
  Make \/ MakeNull \/ GenerateCaptures \/ GenerateCapturesIncremental

SpecCaptures == InitCaptures /\ [][NextCaptures]_vars

\* ---- castling, castling rights, en passant, double check -----------------
InitMoves ==
  /\ fen \in DOMAIN MoveFens
  /\ \E parsed \in {from_fen_bytes(MoveFens[fen])} : board = parsed.board
  /\ prev = board
  /\ last = NoMove
  /\ ply = 0
  /\ saved = << >>
  /\ depth = 0
  /\ nodes = None
  /\ tt = NoTable
  /\ history = << >>
  /\ call = NoCall

SpecMoves == InitMoves /\ [][Next]_vars

\* ---- the FEN parser on arbitrary text ------------------------------------
\* The texts the inputs are derived from: positions of few pieces, so that
\* no input describes more than 16 pieces of one colour.
FenBases == << Fens[1], Fens[11], PerftTests[5].fen >>

\* The bytes put in the place of a byte of a text: x, 9, q.
BadBytes == {120, 57, 113}

\* The inputs derived from a text: the text itself, the text cut after its
\* first n bytes, with byte k replaced, and with byte k left out.
Inputs(text) ==
  {text}
  \cup {SubSeq(text, 1, n) : n \in 0..(Len(text) - 1)}
  \cup {[text EXCEPT ![k] = c] : k \in 1..Len(text), c \in BadBytes}
  \cup {SubSeq(text, 1, k - 1) \o SubSeq(text, k + 1, Len(text)) :
          k \in 1..Len(text)}

\* Before Board::from_fen_bytes(text): the text is held in call.arg.
InitFen ==
  /\ fen \in DOMAIN FenBases
  /\ \E text \in Inputs(FenBases[fen]) :
       call = [op |-> "input", arg |-> text, out |-> None]
  /\ board = NewBoard
  /\ prev = NewBoard
  /\ last = NoMove
  /\ ply = 0
  /\ saved = << >>
  /\ depth = 0
  /\ nodes = None
  /\ tt = NoTable
  /\ history = << >>

\* self.board = Board::from_fen_bytes(text): the board is replaced when the
\* parser returns Some and kept when it returns None or panics.
FromFen ==
  /\ call.op = "input"
  /\ \E parsed \in {from_fen_bytes(call.arg)} :
       /\ call' = [op |-> "from_fen_bytes", arg |-> call.arg, out |-> parsed]
       /\ board' = IF parsed.tag = "Some" THEN parsed.board ELSE board
  /\ prev' = board
  /\ UNCHANGED << last, ply, fen, saved, depth, nodes,
                 tt, history >>

NextFen == FromFen

SpecFen == InitFen /\ [][NextFen]_vars

\* ---- the FEN parser on well-formed text ----------------------------------
\* The texts of all the starting positions above.
ParseBases ==
  {Fens[i] : i \in DOMAIN Fens}
  \cup {CaptureFens[i] : i \in DOMAIN CaptureFens}
  \cup {MoveFens[i] : i \in DOMAIN MoveFens}
  \cup {PerftTests[i].fen : i \in DOMAIN PerftTests}

\* The length of the placement field of a text.
PlacementLen(text) ==
  CHOOSE n \in 0..Len(text) :
    /\ (n < Len(text) => text[n + 1] = 32)
    /\ \A j \in 1..n : text[j] # 32

\* The inputs derived from a text: the text itself, and the text with one
\* piece letter of its placement replaced by N (a white piece) or by b (a
\* black piece), which keeps the number of pieces of each colour.
ParseInputs(text) ==
  {text}
  \cup {[text EXCEPT ![k] = IF is_ascii_uppercase(text[k]) THEN 78 ELSE 98] :
          k \in {j \in 1..PlacementLen(text) : text[j] >= 65}}

\* Before Board::from_fen_bytes(text): the text is held in call.arg.
InitParse ==
  /\ \E base \in ParseBases : \E text \in ParseInputs(base) :
       call = [op |-> "input", arg |-> text, out |-> None]
  /\ fen = 1
  /\ board = NewBoard
  /\ prev = NewBoard
  /\ last = NoMove
  /\ ply = 0
  /\ saved = << >>
  /\ depth = 0
  /\ nodes = None
  /\ tt = NoTable
  /\ history = << >>

SpecParse == InitParse /\ [][NextFen]_vars

\* ---- pinned pieces -------------------------------------------------------
\* Board::from_fen on one of the positions with pinned pieces.
InitPins ==
  /\ fen \in DOMAIN PinFens
  /\ \E parsed \in {from_fen_bytes(PinFens[fen])} : board = parsed.board
  /\ prev = board
  /\ last = NoMove
  /\ ply = 0
  /\ saved = << >>
  /\ depth = 0
  /\ nodes = None
  /\ tt = NoTable
  /\ history = << >>
  /\ call = NoCall

SpecPins == InitPins /\ [][Next]_vars

\* ---- Square::direction on every pair of squares --------------------------
\* Before a.direction(b): the pair << a, b >> is held in call.arg.
InitDirection ==
  /\ \E a \in Squares : \E b \in Squares \ {a} :
       call = [op |-> "input", arg |-> << a, b >>, out |-> None]
  /\ fen = 1
  /\ board = NewBoard
  /\ prev = NewBoard
  /\ last = NoMove
  /\ ply = 0
  /\ saved = << >>
  /\ depth = 0
  /\ nodes = None
  /\ tt = NoTable
  /\ history = << >>

\* a.direction(b)
Direction ==
  /\ call.op = "input"
  /\ call' = [op |-> "direction", arg |-> call.arg,
              out |-> direction(call.arg[1], call.arg[2])]
  /\ UNCHANGED << board, prev, last, ply, fen, saved, depth, nodes,
                 tt, history >>

NextDirection == Direction

SpecDirection == InitDirection /\ [][NextDirection]_vars

\* ---- moves of the three generators ---------------------------------------
\* board = board.make(m, zobrist) for a move m that generate_captures
\* appended.
MakeCapture ==
  /\ ply < MaxPly
  /\ \E v \in {generate_captures(board)} :
       \E k \in 1..Len(v) :
         /\ board' = make(board, v[k])
         /\ last' = v[k]
  /\ prev' = board
  /\ ply' = ply + 1
  /\ call' = [op |-> "generate_captures", arg |-> None, out |-> None]
  /\ UNCHANGED << fen, saved, depth, nodes, tt, history >>

\* board.make(m, self.zobrist) in the continuation quiesce passes to
\* generate_captures_incremental, for a move m passed to it; a continuation
\* that returns false is passed a prefix of the moves passed to one that
\* never does.
MakeQuiesce ==
  /\ ply < MaxPly
  /\ \E v \in {generate_captures_incremental(board, 0)} :
       \E k \in 1..Len(v) :
         /\ board' = make(board, v[k])
         /\ last' = v[k]
  /\ prev' = board
  /\ ply' = ply + 1
  /\ call' = [op |-> "generate_captures_incremental", arg |-> 0, out |-> None]
  /\ UNCHANGED << fen, saved, depth, nodes, tt, history >>

NextKings == Make \/ MakeCapture \/ MakeQuiesce

SpecKings == InitCaptures /\ [][NextKings]_vars

\* ---- the rules of chess --------------------------------------------------
\* A reference for the claims below, written from the rules of the game and
\* not from the move generator.  It reads a position only through its
\* placement (which piece of which colour stands on which square), the side
\* to move, the castling rights and the en-passant target.
Abs(x) == IF x < 0 THEN -x ELSE x

Sign(x) == IF x > 0 THEN 1 ELSE IF x < 0 THEN -1 ELSE 0

Max(x, y) == IF x > y THEN x ELSE y

\* The placement: << colour, kind >> for an occupied square, << >> otherwise.
Placement(b) ==
  [s \in Squares |->
     IF has_piece(b.data, s)
     THEN << colour_from_square(b.data, s), piece_from_square(b.data, s) >>
     ELSE << >>]

\* The squares strictly between two squares of one rank, file or diagonal.
Between(s, t) ==
  LET df == FileOf(t) - FileOf(s)
      dr == RankOf(t) - RankOf(s)
  IN IF df = 0 \/ dr = 0 \/ Abs(df) = Abs(dr)
     THEN {8 * (RankOf(s) + k * Sign(dr)) + FileOf(s) + k * Sign(df) :
             k \in 1..(Max(Abs(df), Abs(dr)) - 1)}
     ELSE {}

\* The piece on s attacks t: the movement patterns of the pieces, sliders
\* stopped by the first piece in their way, pawns on their capture diagonals.
Attacks(pl, s, t) ==
  LET df == FileOf(t) - FileOf(s)
      dr == RankOf(t) - RankOf(s)
      clear == \A u \in Between(s, t) : pl[u] = << >>
      line == (df = 0 \/ dr = 0) /\ clear
      diag == Abs(df) = Abs(dr) /\ clear
  IN /\ s # t
     /\ pl[s] # << >>
     /\ CASE pl[s][2] = Pawn ->
               Abs(df) = 1 /\ dr = (IF pl[s][1] = White THEN 1 ELSE -1)
          [] pl[s][2] = Knight ->
               {Abs(df), Abs(dr)} = {1, 2}
          [] pl[s][2] = King -> Max(Abs(df), Abs(dr)) = 1
          [] pl[s][2] = Bishop -> diag
          [] pl[s][2] = Rook -> line
          [] pl[s][2] = Queen -> line \/ diag

Attacked(pl, t, colour) ==
  \E s \in Squares : pl[s] # << >> /\ pl[s][1] = colour /\ Attacks(pl, s, t)

KingSquare(pl, colour) == CHOOSE s \in Squares : pl[s] = << colour, King >>

InCheck(pl, colour) == Attacked(pl, KingSquare(pl, colour), Not(colour))

LastRank(colour) == IF colour = White THEN 7 ELSE 0

Forward(colour) == IF colour = White THEN 1 ELSE -1

PromotionPieces == {Queen, Rook, Bishop, Knight}

\* The moves of the pawn on s, before the test for the own king's safety.
PawnMoves(b, pl, s) ==
  LET c == b.side
      f == FileOf(s)
      r == RankOf(s) + Forward(c)
      one == 8 * r + f
      two == one + 8 * Forward(c)
      targets == {8 * r + g : g \in {f - 1, f + 1} \cap (0..7)}
  IN IF r \notin 0..7 THEN {}
     ELSE
       (IF pl[one] # << >> THEN {}
        ELSE IF r = LastRank(c)
             THEN {Move(s, one, "Promotion", p) : p \in PromotionPieces}
             ELSE {Move(s, one, "Normal", None)})
       \cup
       (IF RankOf(s) = LastRank(Not(c)) + Forward(c)
           /\ pl[one] = << >> /\ pl[two] = << >>
        THEN {Move(s, two, "DoublePush", None)} ELSE {})
       \cup
       UNION {IF pl[t] # << >> /\ pl[t][1] = Not(c)
              THEN IF r = LastRank(c)
                   THEN {Move(s, t, "CapturePromotion", p) :
                           p \in PromotionPieces}
                   ELSE {Move(s, t, "Capture", None)}
              ELSE IF t = b.ep /\ pl[t] = << >>
                      /\ pl[t - 8 * Forward(c)] = << Not(c), Pawn >>
                   THEN {Move(s, t, "EnPassant", None)}
                   ELSE {} : t \in targets}

\* The moves of the knight, bishop, rook, queen or king on s, castling apart.
PieceMoves(b, pl, s) ==
  {Move(s, t, IF pl[t] = << >> THEN "Normal" ELSE "Capture", None) :
     t \in {u \in Squares : /\ Attacks(pl, s, u)
                            /\ (pl[u] = << >> \/ pl[u][1] = Not(b.side))}}

\* Castling: the right is held, king and rook stand on their squares, the
\* squares between them are empty, and the king is not in check and neither
\* crosses nor reaches an attacked square.
CastleMoves(b, pl) ==
  LET c == b.side
      home == 8 * LastRank(Not(c))
      king == home + 4
      safe(S) == \A u \in S : ~Attacked(pl, u, Not(c))
      empty(S) == \A u \in S : pl[u] = << >>
  IN (IF b.castle[IF c = White THEN 1 ELSE 3]
         /\ pl[king] = << c, King >> /\ pl[home + 7] = << c, Rook >>
         /\ empty({home + 5, home + 6})
         /\ safe({home + 4, home + 5, home + 6})
      THEN {Move(king, home + 6, "Castle", None)} ELSE {})
     \cup
     (IF b.castle[IF c = White THEN 2 ELSE 4]
         /\ pl[king] = << c, King >> /\ pl[home] = << c, Rook >>
         /\ empty({home + 1, home + 2, home + 3})
         /\ safe({home + 4, home + 3, home + 2})
      THEN {Move(king, home + 2, "Castle", None)} ELSE {})

\* The placement after a move.
Apply(pl, m, colour) ==
  LET moved == [pl EXCEPT ![m.from] = << >>,
                          ![m.dest] = IF m.prom = None THEN pl[m.from]
                                      ELSE << colour, m.prom >>]
      home == 8 * RankOf(m.from)
  IN CASE m.kind = "EnPassant" ->
            [moved EXCEPT ![8 * RankOf(m.from) + FileOf(m.dest)] = << >>]
       [] m.kind = "Castle" /\ m.dest > m.from ->
            [moved EXCEPT ![home + 7] = << >>, ![home + 5] = << colour, Rook >>]
       [] m.kind = "Castle" /\ m.dest < m.from ->
            [moved EXCEPT ![home] = << >>, ![home + 3] = << colour, Rook >>]
       [] OTHER -> moved

\* The legal moves of the side to move.
LegalMoves(b) ==
  LET pl == Placement(b)
      own == {s \in Squares : pl[s] # << >> /\ pl[s][1] = b.side}
      candidates ==
        UNION {IF pl[s][2] = Pawn THEN PawnMoves(b, pl, s)
               ELSE PieceMoves(b, pl, s) : s \in own}
        \cup CastleMoves(b, pl)
  IN {m \in candidates : ~InCheck(Apply(pl, m, b.side), b.side)}

\* The moves generate appends, as a set.
Generated(b) == {generate(b)[k] : k \in 1..Len(generate(b))}

\* ---- claims --------------------------------------------------------------
\* The last operation was a move made by make.
Moved == last.kind \in MoveTypes

\* The placement field of a FEN text, read square by square: the byte that
\* describes square s, or 0 when the text leaves the square empty.
FenWidth(c) == IF c >= 49 /\ c <= 56 THEN c - 48 ELSE IF c = 47 THEN 0 ELSE 1

FenByteAt(text, s) ==
  LET field == CHOOSE n \in 0..Len(text) :
                 /\ (n < Len(text) => text[n + 1] = 32)
                 /\ \A j \in 1..n : text[j] # 32
      before(k) == FoldRange(LAMBDA a, c : a + FenWidth(c), 0, text, 1, k - 1)
      here == {k \in 1..field :
                 text[k] >= 65 /\ before(k) = 8 * (7 - RankOf(s)) + FileOf(s)}
  IN IF here = {} THEN 0 ELSE text[CHOOSE k \in here : TRUE]

\* C1: after a move that generate appended, the mover's king is not attacked:
\* Board::illegal is false, and by the rules of the game the mover is not in
\* check.
C1_MoverKingSafe ==
  Moved => /\ ~illegal(board)
           /\ ~InCheck(Placement(board), Not(board.side))

\* C1 witness: a move was made in answer to a check.
C1_Witness == Moved /\ in_check(prev) /\ ~illegal(board)

\* C2: in every reachable position generate appends exactly the legal moves
\* of the side to move (same from, dest, kind and promotion piece), each
\* once.
C2_GenerateIsExactlyLegal ==
  /\ Generated(board) = LegalMoves(board)
  /\ Len(generate(board)) = Cardinality(Generated(board))

\* The sum of perft(make(b, m), d) over the moves m that generate appends.
SumOverMoves(b, d) ==
  LET moves == generate(b)
      sum[k \in 0..Len(moves)] ==
        IF k = 0 THEN 0 ELSE sum[k - 1] + perft(make(b, moves[k]), d)
  IN sum[Len(moves)]

\* C3: perft is 1 at depth 0, the number of generated moves at depth 1 and
\* the sum over the generated moves of perft one level down from depth 2 on,
\* and its result is the reference leaf count of the perft tests.
C3_PerftCounts ==
  /\ perft(board, 0) = 1
  /\ perft(board, 1) = Len(generate(board))
  /\ nodes # None =>
       /\ nodes = PerftTests[fen].counts[depth]
       /\ depth >= 2 => nodes = SumOverMoves(board, depth - 1)

\* C3 witness: perft has counted the 2343 leaves at depth 6 of
\* K7/p7/k7/8/8/8/8/8 w - - 0 1, where one move is legal.
C3_Witness ==
  /\ fen = 12 /\ depth = 6 /\ nodes = 2343
  /\ Len(generate(board)) = 1

\* C4: the incrementally maintained attack table is the table that
\* rebuild_attacks builds from scratch; bit i is set for a square exactly
\* when i is a live piece whose attack pattern reaches the square under the
\* current occupancy; no piece attacks its own square.
C4_AttackTable ==
  LET d == board.data
      pl == Placement(board)
  IN /\ d.bitlist = rebuild_attacks(d).bitlist
     /\ \A sq \in Squares :
          d.bitlist[sq] =
            {i \in occupied(d) : Attacks(pl, square_of_piece(d, i), sq)}
     /\ \A i \in occupied(d) : i \notin d.bitlist[square_of_piece(d, i)]

\* C4 witness: the table is right after castling, which moves a king and a
\* rook.
C4_Witness ==
  /\ last.kind = "Castle"
  /\ board.data.bitlist = rebuild_attacks(board.data).bitlist

\* C5: after every make and make_null the incrementally updated hash is the
\* hash recalculate_hash computes from scratch.
C5_IncrementalHash == board.hash = recalculate_hash(board).hash

\* Two boards are the same position: placement, side to move, castling
\* rights and en-passant target.
SamePosition(a, b) ==
  /\ Placement(a) = Placement(b)
  /\ a.side = b.side
  /\ a.castle = b.castle
  /\ a.ep = b.ep

\* C6: two sequences of moves and null moves from one starting position
\* that end in the same position end with the same hash.
C6_PathIndependentHash ==
  \A k \in DOMAIN saved :
    SamePosition(board, saved[k]) => board.hash = saved[k].hash

\* C7: piece_at and location are mutually inverse over the live identifiers,
\* every identifier on a square is live, and identifiers 0-15 are held by
\* white pieces only, 16-31 by black pieces only: so the FEN text says of
\* the starting position, and every move keeps a piece's colour.
C7_LocationMaps ==
  LET d == board.data
  IN /\ \A i \in occupied(d) :
          d.piecelist[i] # None /\ d.index[d.piecelist[i]] = i
     /\ \A s \in Squares :
          d.index[s] # None =>
            /\ d.index[s] \in occupied(d)
            /\ mask_piece(d, d.index[s]) # None
            /\ d.piecelist[d.index[s]] = s
     /\ ply = 0 =>
          \A s \in Squares :
            LET c == FenByteAt(Fens[fen], s)
            IN IF c = 0 THEN d.index[s] = None
               ELSE /\ d.index[s] # None
                    /\ (c <= 90) = (d.index[s] \in 0..15)
                    /\ (c > 90) = (d.index[s] \in 16..31)
     /\ Moved => Placement(board) = Apply(Placement(prev), last, prev.side)
     /\ last = NullMove => Placement(board) = Placement(prev)

\* C7 witness: a captured piece's identifier was freed and the maps are
\* still inverse at the capturing piece's square.
C7_Witness ==
  /\ last.kind = "Capture"
  /\ Cardinality(occupied(board.data)) < Cardinality(occupied(prev.data))
  /\ board.data.piecelist[board.data.index[last.dest]] = last.dest

\* The squares a move may change.
Touched(m) ==
  {m.from, m.dest}
  \cup (IF m.kind = "Castle"
        THEN {(m.from + m.dest) \div 2,
              IF m.dest > m.from THEN 8 * RankOf(m.from) + 7
              ELSE 8 * RankOf(m.from)}
        ELSE {})
  \cup (IF m.kind = "EnPassant"
        THEN {8 * RankOf(m.from) + FileOf(m.dest)} ELSE {})

\* C8: make puts the moved piece on the destination with its identifier,
\* kind and colour (the promotion piece in the mover's colour for a
\* promotion), empties the origin, puts the castling rook on the square the
\* king crossed and empties its corner, empties the square of a pawn
\* captured en passant, and leaves every other square as it was, with the
\* same identifier.
C8_MakeFrame ==
  LET p == prev.data
      d == board.data
      m == last
  IN Moved =>
       /\ IF m.kind \in {"Promotion", "CapturePromotion"}
          THEN /\ piece_from_square(d, m.dest) = m.prom
               /\ colour_from_square(d, m.dest) = prev.side
          ELSE /\ d.index[m.dest] = p.index[m.from]
               /\ piece_from_square(d, m.dest) = piece_from_square(p, m.from)
               /\ colour_from_square(d, m.dest) = colour_from_square(p, m.from)
       /\ d.index[m.from] = None
       /\ m.kind = "Castle" =>
            /\ piece_from_square(d, (m.from + m.dest) \div 2) = Rook
            /\ colour_from_square(d, (m.from + m.dest) \div 2) = prev.side
            /\ d.index[IF m.dest > m.from THEN 8 * RankOf(m.from) + 7
                       ELSE 8 * RankOf(m.from)] = None
       /\ m.kind = "EnPassant" =>
            d.index[8 * RankOf(m.from) + FileOf(m.dest)] = None
       /\ \A s \in Squares \ Touched(m) :
            /\ d.index[s] = p.index[s]
            /\ piece_from_square(d, s) = piece_from_square(p, s)

\* C8 witness: an en-passant capture was made where a bystander stands.
C8_Witness ==
  /\ last.kind = "EnPassant"
  /\ \E s \in Squares \ Touched(last) : board.data.index[s] # None

\* C9: make_null flips the side to move, clears the en-passant target and
\* XORs the side key into the hash, and changes nothing else; a second null
\* move restores the hash.
C9_NullMoveFrame ==
  last = NullMove =>
    /\ board.side = Not(prev.side)
    /\ board.ep = None
    /\ board.hash = (prev.hash \ {zobrist_side}) \cup ({zobrist_side} \ prev.hash)
    /\ board.data = prev.data
    /\ board.castle = prev.castle
    /\ make_null(board).hash = prev.hash

\* C9 witness: a null move was made in a position with an en-passant target.
C9_Witness == last = NullMove /\ prev.ep # None /\ board.ep = None

\* C10: every legal pawn move onto the last rank is generated as exactly four
\* moves of kind Promotion (CapturePromotion for a capture) to queen, rook,
\* bishop and knight, and generate never appends a Normal or Capture pawn
\* move onto the relative eighth rank.
C10_PromotionsOnly ==
  LET gen == generate(board)
      same(m) == {k \in 1..Len(gen) :
                    gen[k].from = m.from /\ gen[k].dest = m.dest}
  IN /\ \A m \in LegalMoves(board) :
          m.kind \in {"Promotion", "CapturePromotion"} =>
            /\ Cardinality(same(m)) = 4
            /\ \A k \in same(m) : gen[k].kind = m.kind
            /\ {gen[k].prom : k \in same(m)} = PromotionPieces
     /\ \A k \in 1..Len(gen) :
          (/\ piece_from_square(board.data, gen[k].from) = Pawn
           /\ is_relative_eighth(RankOf(gen[k].dest), board.side))
          => gen[k].kind \notin {"Normal", "Capture"}


\* ---- claims on the capture generators -----------------------------------
CaptureKinds == {"Capture", "CapturePromotion", "EnPassant"}

\* The elements of a list.
Range(s) == {s[k] : k \in 1..Len(s)}

\* No element occurs twice in a list.
NoRepeat(s) == Cardinality(Range(s)) = Len(s)

\* C11: the moves generate_captures appends are exactly the moves of
\* generate whose kind is Capture, CapturePromotion or EnPassant, whether or
\* not the side to move is in check.
C11_CapturesOfGenerate ==
  call.op = "generate_captures" =>
    /\ Range(call.out) = {m \in Generated(board) : m.kind \in CaptureKinds}
    /\ NoRepeat(call.out)

\* The moves passed to the continuation, in the order of the calls.
Emitted == call.out

Incremental == call.op = "generate_captures_incremental"

\* The continuation has not returned false: every call returned true.
NeverStopped == call.arg = 0 \/ Len(call.out) < call.arg

\* C12: every move generate_captures_incremental passes to its continuation
\* is a move of generate with kind Capture, CapturePromotion or EnPassant,
\* also when the side to move is in check, and no move is passed twice.
C12_EmittedAreLegalCaptures ==
  Incremental =>
    /\ \A k \in 1..Len(Emitted) :
         /\ Emitted[k] \in Generated(board)
         /\ Emitted[k].kind \in CaptureKinds
    /\ NoRepeat(Emitted)

\* C13: unless the continuation returned false, every legal en-passant
\* capture is passed to it, after all Capture and CapturePromotion moves.
C13_EnPassantLast ==
  (Incremental /\ NeverStopped) =>
    \A m \in LegalMoves(board) :
      m.kind = "EnPassant" =>
        \E k \in 1..Len(Emitted) :
          /\ Emitted[k] = m
          /\ \A j \in (k + 1)..Len(Emitted) : Emitted[j].kind = "EnPassant"

\* The kind of the piece a capture takes and of the piece that takes it.
VictimKind(m) ==
  IF m.kind = "EnPassant" THEN Pawn ELSE piece_from_square(board.data, m.dest)

AttackerKind(m) == piece_from_square(board.data, m.from)

Class(piece) == IF piece = Knight THEN Bishop ELSE piece

C15_StopsAtFalse ==
  (Incremental /\ call.arg # 0) => Len(Emitted) <= call.arg

\* C15 witness: the continuation returned false at its second call and a
\* third capture was left.
C15_Witness ==
  /\ Incremental /\ call.arg = 2 /\ Len(Emitted) = 2
  /\ Len(generate_captures_incremental(board, 0)) > 2

\* ---- claims on castling, rights, en passant and double check -------------
\* The first rank of a colour: its square on the a-file.
Home(colour) == 8 * LastRank(Not(colour))

\* The Castle moves in a list of moves.
CastleMovesIn(gen) ==
  {gen[k] : k \in {j \in 1..Len(gen) : gen[j].kind = "Castle"}}

AllEmpty(pl, S) == \A u \in S : pl[u] = << >>

NoneAttacked(pl, S, colour) == \A u \in S : ~Attacked(pl, u, colour)

\* C16: generate contains a Castle move on a wing exactly when the side to
\* move holds the wing's right, its king is not in check, the squares
\* between king and rook are empty and the two squares the king crosses and
\* reaches are not attacked; the b-file square may be attacked.
C16_CastleIff ==
  Let(CastleMovesIn(generate(board)), LAMBDA castles :
  LET pl == Placement(board)
      c == board.side
      home == Home(c)
      unchecked == ~InCheck(pl, c)
  IN /\ Move(home + 4, home + 6, "Castle", None) \in castles <=>
          /\ board.castle[IF c = White THEN 1 ELSE 3]
          /\ unchecked
          /\ AllEmpty(pl, {home + 5, home + 6})
          /\ NoneAttacked(pl, {home + 5, home + 6}, Not(c))
     /\ Move(home + 4, home + 2, "Castle", None) \in castles <=>
          /\ board.castle[IF c = White THEN 2 ELSE 4]
          /\ unchecked
          /\ AllEmpty(pl, {home + 1, home + 2, home + 3})
          /\ NoneAttacked(pl, {home + 3, home + 2}, Not(c))
     /\ \A m \in castles :
          m.from = home + 4 /\ m.dest \in {home + 2, home + 6})

\* C16 witness: queen-side castling is generated while the b-file square is
\* attacked.
C16_Witness ==
  /\ Move(Home(board.side) + 4, Home(board.side) + 2, "Castle", None)
       \in CastleMovesIn(generate(board))
  /\ Attacked(Placement(board), Home(board.side) + 1, Not(board.side))

\* The rook corner and the king's square of a castling right (1: white
\* king side, 2: white queen side, 3: black king side, 4: black queen side).
Corner(i) == << 7, 0, 63, 56 >>[i]

KingHome(i) == << 4, 4, 60, 60 >>[i]

\* The move m, made in position p, touches right i: it leaves or reaches the
\* rook corner, or it moves the king of that side from its square.
Touches(p, m, i) ==
  \/ m.from = Corner(i)
  \/ m.dest = Corner(i)
  \/ /\ m.from = KingHome(i)
     /\ Placement(p)[m.from] = << (IF i <= 2 THEN White ELSE Black), King >>

\* C17: after make a castling right is false if the move touches it and
\* keeps its value otherwise; no right is regained by make or make_null.
C17_CastlingRights ==
  /\ Moved =>
       \A i \in 1..4 :
         board.castle[i] = (prev.castle[i] /\ ~Touches(prev, last, i))
  /\ \A i \in 1..4 : board.castle[i] => prev.castle[i]

\* C17 witness: a rook was captured on its corner, its right is gone and
\* another right is kept.
C17_Witness ==
  /\ last.kind = "Capture"
  /\ \E i \in 1..4 :
       last.dest = Corner(i) /\ prev.castle[i] /\ ~board.castle[i]
  /\ \E i \in 1..4 : board.castle[i]

\* C18: after make the en-passant target is the square the pawn skipped if
\* the move is a DoublePush and none otherwise, whatever it was before.
C18_EnPassantTarget ==
  Moved =>
    board.ep = IF last.kind = "DoublePush"
               THEN (last.from + last.dest) \div 2
               ELSE None

\* C18 witness: a double push was made in a position that had another
\* en-passant target.
C18_Witness ==
  /\ last.kind = "DoublePush"
  /\ prev.ep # None
  /\ board.ep = (last.from + last.dest) \div 2
  /\ board.ep # prev.ep

\* The squares from which an enemy piece attacks the king of the side to
\* move.
Checkers(b) ==
  LET pl == Placement(b)
  IN {s \in Squares : /\ pl[s] # << >>
                      /\ pl[s][1] = Not(b.side)
                      /\ Attacks(pl, s, KingSquare(pl, b.side))}

\* t is the square next to the king k on the far side from s, on the line
\* through s and k.
Behind(s, k, t) ==
  /\ FileOf(t) - FileOf(k) = Sign(FileOf(k) - FileOf(s))
  /\ RankOf(t) - RankOf(k) = Sign(RankOf(k) - RankOf(s))

\* C19: in double check every generated move is a king move of kind Normal
\* or Capture to a square without an own piece, not attacked by the enemy
\* and not directly behind the king on the ray of a checking slider.
C19_DoubleCheckKingMoves ==
  LET pl == Placement(board)
      k == KingSquare(pl, board.side)
  IN Cardinality(Checkers(board)) = 2 =>
       \A m \in Generated(board) :
         /\ m.from = k
         /\ m.kind \in {"Normal", "Capture"}
         /\ (pl[m.dest] = << >> \/ pl[m.dest][1] = Not(board.side))
         /\ ~Attacked(pl, m.dest, Not(board.side))
         /\ \A s \in Checkers(board) :
              pl[s][2] \in {Bishop, Rook, Queen} => ~Behind(s, k, m.dest)

\* C19 witness: a double check with a king move available and with an empty
\* square behind the king that no enemy piece attacks while the king stands
\* in the way.
C19_Witness ==
  LET pl == Placement(board)
      k == KingSquare(pl, board.side)
  IN /\ Cardinality(Checkers(board)) = 2
     /\ Generated(board) # {}
     /\ \E s \in Checkers(board) : \E t \in Squares :
          /\ pl[s][2] \in {Bishop, Rook, Queen}
          /\ Behind(s, k, t)
          /\ pl[t] = << >>
          /\ ~Attacked(pl, t, Not(board.side))

\* ---- claims on the FEN parser --------------------------------------------
\* Field number i of a text whose fields are separated by the byte sep.
Field(text, sep, i) ==
  LET seps == {k \in 1..Len(text) : text[k] = sep}
      ks == {k \in 1..Len(text) :
               text[k] # sep /\ Cardinality({j \in seps : j < k}) = i - 1}
  IN IF ks = {} THEN << >>
     ELSE SubSeq(text,
                 CHOOSE k \in ks : \A j \in ks : k <= j,
                 CHOOSE k \in ks : \A j \in ks : k >= j)

\* The number of fields of a text.
FieldCount(text, sep) == Cardinality({k \in 1..Len(text) : text[k] = sep}) + 1

IsDigits(f) == Len(f) > 0 /\ \A k \in 1..Len(f) : f[k] >= 48 /\ f[k] <= 57

\* K Q R B N P k q r b n p
PieceLetters == {75, 81, 82, 66, 78, 80, 107, 113, 114, 98, 110, 112}

\* One rank of the placement field: piece letters and digits 1-8 that
\* describe 8 files.
RankOk(f) ==
  /\ \A k \in 1..Len(f) : f[k] \in PieceLetters \/ (f[k] >= 49 /\ f[k] <= 56)
  /\ FoldRange(LAMBDA a, c : a + FenWidth(c), 0, f, 1, Len(f)) = 8

\* The castling field: - or letters of KQkq, each at most once, in that
\* order.
CastlingOk(f) ==
  LET pos(c) == CHOOSE i \in 1..4 : << 75, 81, 107, 113 >>[i] = c
  IN \/ f = << 45 >>
     \/ /\ Len(f) \in 1..4
        /\ \A k \in 1..Len(f) : f[k] \in {75, 81, 107, 113}
        /\ \A j \in 1..Len(f) : \A k \in (j + 1)..Len(f) : pos(f[j]) < pos(f[k])

\* The en-passant field: - or a square.
EnPassantOk(f) ==
  \/ f = << 45 >>
  \/ /\ Len(f) = 2
     /\ f[1] >= 97 /\ f[1] <= 104
     /\ f[2] >= 49 /\ f[2] <= 56

\* Well-formed FEN: six fields separated by single spaces; a placement of
\* eight ranks separated by /; a side w or b; castling; en passant; two
\* numbers.
WellFormedFen(text) ==
  /\ FieldCount(text, 32) = 6
  /\ \A i \in 1..6 : Field(text, 32, i) # << >>
  /\ Len(text) = 5 + Len(Field(text, 32, 1)) + Len(Field(text, 32, 2))
                   + Len(Field(text, 32, 3)) + Len(Field(text, 32, 4))
                   + Len(Field(text, 32, 5)) + Len(Field(text, 32, 6))
  /\ FieldCount(Field(text, 32, 1), 47) = 8
  /\ \A r \in 1..8 : RankOk(Field(Field(text, 32, 1), 47, r))
  /\ Field(text, 32, 2) \in {<< 119 >>, << 98 >>}
  /\ CastlingOk(Field(text, 32, 3))
  /\ EnPassantOk(Field(text, 32, 4))
  /\ IsDigits(Field(text, 32, 5))
  /\ IsDigits(Field(text, 32, 6))

\* C20: for every text that is not well-formed FEN, from_fen_bytes returns
\* None: it does not panic and it does not yield a position.
C20_MalformedFenIsNone ==
  (call.op = "from_fen_bytes" /\ ~WellFormedFen(call.arg)) =>
    /\ call.out.tag = "None"
    /\ board = prev

\* ---- make never faults ---------------------------------------------------
\* The square the rook leaves in a Castle move, as Board::make computes it.
RookFrom(m) ==
  IF m.dest > m.from THEN travel(m.dest, East)
  ELSE travel(travel(m.dest, West), West)

\* C21: make of a generated move violates none of its assumptions: the
\* origin holds a piece of the side to move; a Capture or CapturePromotion
\* has an enemy piece on its destination; an EnPassant has an en-passant
\* target with an enemy pawn behind it; a Castle has the rook on its corner;
\* a promotion names its piece; and no debug assertion of the board data
\* (add of a set bit, remove of a clear bit, a piece attacking its own
\* square, an occupied slot) has fired.
C21_MakeNeverFaults ==
  Moved =>
    LET d == prev.data
        m == last
        own(s) == s # None /\ has_piece(d, s)
                    /\ colour_from_square(d, s) = prev.side
        enemy(s) == s # None /\ has_piece(d, s)
                      /\ colour_from_square(d, s) = Not(prev.side)
    IN /\ own(m.from)
       /\ m.kind \in {"Capture", "CapturePromotion"} => enemy(m.dest)
       /\ m.kind = "EnPassant" =>
            /\ prev.ep # None
            /\ enemy(relative_south(prev.ep, prev.side))
            /\ piece_from_square(d, relative_south(prev.ep, prev.side)) = Pawn
       /\ m.kind = "Castle" =>
            /\ RookFrom(m) \in {0, 7, 56, 63}
            /\ own(RookFrom(m))
            /\ piece_from_square(d, RookFrom(m)) = Rook
       /\ m.kind \in {"Promotion", "CapturePromotion"} => m.prom # None
       /\ ~board.data.fault

\* C21 witness: a bishop, rook or queen has captured along a ray (the move
\* that adds and removes its own bit around the update) and nothing faulted.
C21_Witness ==
  /\ Moved
  /\ last.kind = "Capture"
  /\ piece_from_square(board.data, last.dest) \in {Bishop, Rook, Queen}
  /\ ~board.data.fault

\* ---- the FEN parser on well-formed text: claims --------------------------
\* The byte that names a piece in FEN: KQRBNP, lower case for black.
FenLetter(colour, piece) ==
  << 80, 78, 66, 82, 81, 75 >>[piece + 1] + (IF colour = Black THEN 32 ELSE 0)

\* One rank of a placement written as FEN: a letter for each piece and one
\* digit for each maximal run of empty squares.
FenRank(pl, rank) ==
  LET step(acc, file) ==
        IF pl[8 * rank + file] = << >>
        THEN [acc EXCEPT !.run = @ + 1]
        ELSE [txt |-> (IF acc.run > 0 THEN Append(acc.txt, 48 + acc.run)
                       ELSE acc.txt)
                      \o << FenLetter(pl[8 * rank + file][1],
                                      pl[8 * rank + file][2]) >>,
              run |-> 0]
      done == Fold(step, [txt |-> << >>, run |-> 0], [i \in 1..8 |-> i - 1])
  IN IF done.run > 0 THEN Append(done.txt, 48 + done.run) ELSE done.txt

\* The first four fields of the FEN text of a position, written by the
\* rules of FEN and not by code of the engine (which has no FEN writer: its
\* Display prints a diagram).
FenText(b) ==
  LET pl == Placement(b)
      ranks == Fold(LAMBDA acc, r :
                      acc \o (IF r < 7 THEN << 47 >> ELSE << >>)
                          \o FenRank(pl, r),
                    << >>, [i \in 1..8 |-> 8 - i])
      rights == (IF b.castle[1] THEN << 75 >> ELSE << >>)
                \o (IF b.castle[2] THEN << 81 >> ELSE << >>)
                \o (IF b.castle[3] THEN << 107 >> ELSE << >>)
                \o (IF b.castle[4] THEN << 113 >> ELSE << >>)
  IN ranks \o << 32, IF b.side = White THEN 119 ELSE 98, 32 >>
       \o (IF rights = << >> THEN << 45 >> ELSE rights)
       \o << 32 >>
       \o (IF b.ep = None THEN << 45 >>
           ELSE << 97 + FileOf(b.ep), 49 + RankOf(b.ep) >>)

\* A text without its halfmove and fullmove fields.
FirstFourFields(text) ==
  SubSeq(text, 1,
         Len(Field(text, 32, 1)) + Len(Field(text, 32, 2))
           + Len(Field(text, 32, 3)) + Len(Field(text, 32, 4)) + 3)

\* Well-formed FEN in its standard form: no two digits side by side in the
\* placement, and a position the board can hold (at most 16 pieces of each
\* colour).
StandardFen(text) ==
  /\ WellFormedFen(text)
  /\ \A k \in 1..(Len(text) - 1) :
       ~(k < PlacementLen(text)
         /\ text[k] >= 49 /\ text[k] <= 56
         /\ text[k + 1] >= 49 /\ text[k + 1] <= 56)
  /\ Cardinality({k \in 1..PlacementLen(text) :
                    text[k] >= 65 /\ text[k] <= 90}) <= 16
  /\ Cardinality({k \in 1..PlacementLen(text) : text[k] >= 97}) <= 16

\* C22: from_fen_bytes on a well-formed FEN yields a position that has on
\* every square the piece the placement field names there (upper case white,
\* lower case black, nothing where a digit covers the square), and the side,
\* the castling rights and the en-passant square of the fields; writing that
\* position as FEN gives back the first four fields of the text.
C22_ParseIsFaithful ==
  (call.op = "from_fen_bytes" /\ StandardFen(call.arg)) =>
    /\ call.out.tag = "Some"
    /\ board = call.out.board
    /\ \A s \in Squares :
         LET c == FenByteAt(call.arg, s)
         IN IF c = 0 THEN ~has_piece(board.data, s)
            ELSE /\ has_piece(board.data, s)
                 /\ FenLetter(colour_from_square(board.data, s),
                              piece_from_square(board.data, s)) = c
    /\ board.side = (IF Field(call.arg, 32, 2) = << 119 >> THEN White ELSE Black)
    /\ \A i \in 1..4 :
         board.castle[i] =
           (\E k \in 1..Len(Field(call.arg, 32, 3)) :
              Field(call.arg, 32, 3)[k] = << 75, 81, 107, 113 >>[i])
    /\ LET f == Field(call.arg, 32, 4)
       IN board.ep = (IF f = << 45 >> THEN None
                      ELSE 8 * (f[2] - 49) + (f[1] - 97))
    /\ FenText(board) = FirstFourFields(call.arg)

\* C22 witness: a text with an en-passant square whose file and rank differ
\* has been parsed and written back.
C22_Witness ==
  /\ call.op = "from_fen_bytes"
  /\ StandardFen(call.arg)
  /\ call.out.tag = "Some"
  /\ board.ep # None /\ FileOf(board.ep) # RankOf(board.ep)
  /\ FenText(board) = FirstFourFields(call.arg)

\* ---- single check --------------------------------------------------------
\* The move m answers the check given from square s to the king on k in one
\* of the three ways: (a) it captures the checking piece, en passant
\* included; (b) the checker is a bishop, rook or queen and a piece other
\* than the king moves between king and checker; (c) the king moves to a
\* square that no enemy piece attacks and that is not directly behind the
\* king on the checker's ray.
AnswersCheck(b, pl, s, k, m) ==
  \/ /\ m.kind \in {"Capture", "CapturePromotion"}
     /\ m.dest = s
  \/ /\ m.kind = "EnPassant"
     /\ pl[s][2] = Pawn
     /\ s = 8 * RankOf(m.from) + FileOf(m.dest)
  \/ /\ pl[s][2] \in {Bishop, Rook, Queen}
     /\ m.from # k
     /\ m.dest \in Between(k, s)
  \/ /\ m.from = k
     /\ ~Attacked(pl, m.dest, Not(b.side))
     /\ ~(pl[s][2] \in {Bishop, Rook, Queen} /\ Behind(s, k, m.dest))

\* C23: when exactly one enemy piece attacks the king of the side to move,
\* every move generate appends answers the check in one of the three ways,
\* and every legal move that does so is appended.
C23_SingleCheckResponses ==
  Cardinality(Checkers(board)) = 1 =>
    Let(Range(generate(board)), LAMBDA gen :
      LET pl == Placement(board)
          k == KingSquare(pl, board.side)
          s == CHOOSE c \in Checkers(board) : TRUE
      IN /\ \A m \in gen : AnswersCheck(board, pl, s, k, m)
         /\ \A m \in LegalMoves(board) :
              AnswersCheck(board, pl, s, k, m) => m \in gen)

\* ---- pinned pieces: claims -----------------------------------------------
\* The compass direction of a step of df files and dr ranks (each -1, 0 or
\* 1, not both 0); north is towards rank 8 and east towards file h.
CompassOf(df, dr) ==
  CASE df = 0 /\ dr = 1 -> North
    [] df = 1 /\ dr = 1 -> NorthEast
    [] df = 1 /\ dr = 0 -> East
    [] df = 1 /\ dr = -1 -> SouthEast
    [] df = 0 /\ dr = -1 -> South
    [] df = -1 /\ dr = -1 -> SouthWest
    [] df = -1 /\ dr = 0 -> West
    [] df = -1 /\ dr = 1 -> NorthWest

\* The compass direction in which t lies from s when the two squares share
\* a rank, a file or a diagonal, and None otherwise.
Compass(s, t) ==
  LET df == FileOf(t) - FileOf(s)
      dr == RankOf(t) - RankOf(s)
  IN IF s # t /\ (df = 0 \/ dr = 0 \/ Abs(df) = Abs(dr))
     THEN CompassOf(Sign(df), Sign(dr))
     ELSE None

\* The direction opposite to a compass direction.
Reverse(d) ==
  CHOOSE e \in {North, NorthEast, East, SouthEast,
                South, SouthWest, West, NorthWest} :
    \E df \in {-1, 0, 1} : \E dr \in {-1, 0, 1} :
      /\ << df, dr >> # << 0, 0 >>
      /\ d = CompassOf(df, dr)
      /\ e = CompassOf(-df, -dr)

\* The moves of the three generators in a position: generate,
\* generate_captures and generate_captures_incremental with a continuation
\* that never stops it.
AllGenerated(b) ==
  Range(generate(b)) \cup Range(generate_captures(b))
    \cup Range(generate_captures_incremental(b, 0))

\* C24: no generated move takes a pinned piece off its pin ray.  For every
\* move of the three generators whose piece discover_pinned_pieces records
\* as pinned with direction d, the destination lies from the origin in
\* direction d or in the opposite direction; so a pinned knight has no move,
\* a pinned pawn pushes only on a vertical pin and captures only along the
\* pin diagonal; and no EnPassant move is made by a pawn recorded as
\* en-passant-pinned.
C24_PinnedStayOnRay ==
  Let(discover_pinned_pieces(board), LAMBDA info :
  Let(AllGenerated(board), LAMBDA moves :
    \A m \in moves :
      LET i == piece_index(board.data, m.from)
          d == info.pins[i]
          piece == piece_from_square(board.data, m.from)
      IN /\ d # None =>
              /\ Compass(m.from, m.dest) \in {d, Reverse(d)}
              /\ piece # Knight
              /\ (piece = Pawn /\ m.kind \in {"Normal", "DoublePush", "Promotion"})
                   => d \in {North, South}
              /\ (piece = Pawn
                  /\ m.kind \in {"Capture", "CapturePromotion", "EnPassant"})
                   => d \in {NorthEast, SouthEast, SouthWest, NorthWest}
         /\ m.kind = "EnPassant" => i \notin info.enpassant_pinned))

\* C24 witness: a position with a pinned knight, in which a pinned pawn
\* captures along its pin diagonal.
C24_Witness ==
  Let(discover_pinned_pieces(board), LAMBDA info :
  Let(Range(generate(board)), LAMBDA moves :
    /\ \E i \in knights(board.data) : info.pins[i] # None
    /\ \E m \in moves :
         /\ info.pins[piece_index(board.data, m.from)] # None
         /\ piece_from_square(board.data, m.from) = Pawn
         /\ m.kind = "Capture"))

\* The enemy bishops, rooks and queens that stand on a line with the king
\* of the side to move and move along that line: << square, direction from
\* the piece towards the king >>.
LineSliders(b, pl) ==
  LET k == KingSquare(pl, b.side)
  IN {<< s, Compass(s, k) >> : s \in
        {t \in Squares :
           /\ pl[t] # << >>
           /\ pl[t][1] = Not(b.side)
           /\ Compass(t, k) # None
           /\ \/ pl[t][2] = Queen
              \/ pl[t][2] = Bishop
                 /\ Compass(t, k) \in {NorthEast, SouthEast, SouthWest, NorthWest}
              \/ pl[t][2] = Rook
                 /\ Compass(t, k) \in {North, East, South, West}}}

\* The occupied squares strictly between a square and the king of the side
\* to move.
Blockers(b, pl, s) ==
  {u \in Between(s, KingSquare(pl, b.side)) : pl[u] # << >>}

\* C25: discover_pinned_pieces records identifier i as pinned with direction
\* d exactly when an enemy bishop, rook or queen stands on a line with the
\* own king, d is the direction from it to the king and fits its kind, and
\* piece i of the side to move is the only piece between the two; it
\* records i as en-passant-pinned exactly when such a line is horizontal and
\* just two pieces stand between, own pawn i and an enemy pawn; nothing else
\* is recorded.
C25_PinsAreExact ==
  Let(discover_pinned_pieces(board), LAMBDA info :
  Let(Placement(board), LAMBDA pl :
  Let({<< e[1], e[2], Blockers(board, pl, e[1]) >> :
         e \in LineSliders(board, pl)}, LAMBDA lines :
    LET pins ==
          {<< piece_index(board.data, CHOOSE v \in l[3] : TRUE), l[2] >> :
             l \in {x \in lines :
                      /\ Cardinality(x[3]) = 1
                      /\ \A v \in x[3] : pl[v][1] = board.side}}
        eps ==
          UNION {{piece_index(board.data, v) :
                    v \in {u \in l[3] : pl[u] = << board.side, Pawn >>}} :
                 l \in {x \in lines :
                          /\ x[2] \in {East, West}
                          /\ Cardinality(x[3]) = 2
                          /\ \E v \in x[3] : pl[v] = << board.side, Pawn >>
                          /\ \E w \in x[3] :
                               pl[w] = << Not(board.side), Pawn >>}}
    IN /\ {<< i, info.pins[i] >> : i \in {j \in PieceIndices :
                                            info.pins[j] # None}} = pins
       /\ info.enpassant_pinned = eps)))

\* C25 witness: one piece is recorded as pinned along a diagonal and another
\* along a file.
C25_Witness ==
  Let(discover_pinned_pieces(board), LAMBDA info :
    /\ \E i \in PieceIndices :
         info.pins[i] \in {NorthEast, SouthEast, SouthWest, NorthWest}
    /\ \E i \in PieceIndices : info.pins[i] \in {North, South})

\* ---- castling rights and placement ---------------------------------------
\* The colour of a castling right (1, 2: white; 3, 4: black).
RightColour(i) == IF i <= 2 THEN White ELSE Black

\* C26: in every position reached from a FEN whose castling rights match
\* its placement, a castling right that is held implies that the king of
\* that side stands on its e-file home square and a rook of that side on
\* the corner of the right; and the rook a Castle move has moved is a rook
\* of the mover that stood on that corner.
C26_RightsMatchPlacement ==
  Let(Placement(board), LAMBDA pl :
    /\ \A i \in 1..4 :
         board.castle[i] =>
           /\ pl[KingHome(i)] = << RightColour(i), King >>
           /\ pl[Corner(i)] = << RightColour(i), Rook >>
    /\ last.kind = "Castle" =>
         /\ Placement(prev)[RookFrom(last)] = << prev.side, Rook >>
         /\ RookFrom(last) \in {Corner(i) : i \in 1..4}
         /\ pl[(last.from + last.dest) \div 2] = << prev.side, Rook >>
         /\ pl[last.dest] = << prev.side, King >>)

\* C26 witness: a move other than castling has taken a right away while
\* another right is still held.
C26_Witness ==
  /\ Moved
  /\ \E i \in 1..4 : prev.castle[i] /\ ~board.castle[i]
  /\ \E i \in 1..4 : board.castle[i]
  /\ last.kind # "Castle"

\* ---- bad captures --------------------------------------------------------
\* The value class of a kind of piece: pawn, minor piece, rook, queen, king.
Value(piece) ==
  CASE piece = Pawn -> 1
    [] piece \in {Knight, Bishop} -> 2
    [] piece = Rook -> 3
    [] piece = Queen -> 4
    [] piece = King -> 5

\* The capture m is a bad capture: a knight, bishop, rook or queen takes a
\* piece of a strictly lower class on a square that an enemy piece of a
\* class strictly lower than the capturer's attacks.
BadCapture(pl, side, m) ==
  /\ pl[m.from][2] \in {Knight, Bishop, Rook, Queen}
  /\ pl[m.dest] # << >>
  /\ Value(pl[m.dest][2]) < Value(pl[m.from][2])
  /\ \E s \in Squares :
       /\ pl[s] # << >>
       /\ pl[s][1] = Not(side)
       /\ Attacks(pl, s, m.dest)
       /\ Value(pl[s][2]) < Value(pl[m.from][2])

\* C27: the legal captures that generate_captures_incremental does not pass
\* to a continuation that never stops it are bad captures; so no capture by
\* a pawn or by the king and no capture of a piece of the capturer's class
\* or of a higher class is withheld.
C27_OnlyBadCapturesWithheld ==
  (Incremental /\ call.arg = 0) =>
    Let(Placement(board), LAMBDA pl :
      \A m \in LegalMoves(board) :
        (m.kind \in CaptureKinds /\ m \notin Range(Emitted))
          => BadCapture(pl, board.side, m))

\* ---- Square::direction: claims -------------------------------------------
\* The eight directions of the slider rays.
RayDirections ==
  {North, NorthEast, East, SouthEast, South, SouthWest, West, NorthWest}

\* The squares reached from a by one or more steps in a compass direction
\* that stay on the board, a step being one file and/or one rank.
StepsFrom(a, d) ==
  {8 * (RankOf(a) + k * dr) + FileOf(a) + k * df :
     << k, df, dr >> \in
       {x \in (1..7) \X {-1, 0, 1} \X {-1, 0, 1} :
          /\ << x[2], x[3] >> # << 0, 0 >>
          /\ CompassOf(x[2], x[3]) = d
          /\ RankOf(a) + x[1] * x[3] \in 0..7
          /\ FileOf(a) + x[1] * x[2] \in 0..7}}

\* C28: for distinct squares a and b, a.direction(b) is Some(d) for a ray
\* direction d exactly when b is reached from a by one or more on-board
\* steps of d, and None otherwise, as for two squares a knight leap apart;
\* b.direction(a) is then d.opposite(), and the 16x8 offset of d.opposite()
\* is the negation of that of d.
C28_DirectionTable ==
  call.op = "direction" =>
    LET a == call.arg[1]
        b == call.arg[2]
        d == call.out
    IN /\ d \in RayDirections \cup {None}
       /\ \A e \in RayDirections : (d = e) <=> (b \in StepsFrom(a, e))
       /\ d # None =>
            /\ direction(b, a) = opposite(d)
            /\ opposite(d) \in RayDirections \ {d}
            /\ to_16x8(opposite(d)) = -to_16x8(d)
       /\ {Abs(FileOf(b) - FileOf(a)), Abs(RankOf(b) - RankOf(a))} = {1, 2}
            => d = None

\* C28 witness: the direction from a1 to h8, seven steps away, is north-east.
C28_Witness ==
  /\ call.op = "direction"
  /\ call.arg = << 0, 63 >>
  /\ call.out = NorthEast

\* ---- yukari/src/tt.rs: the transposition table ---------------------------
\* size_of::<Entry<&str>>(), the entry of tests::basic: a u64 and a &str.
EntrySize == 24

\* T::default()
Default == 0

\* usize::next_power_of_two
RECURSIVE next_power_of_two(_)
next_power_of_two(n) ==
  IF n <= 1 THEN 1 ELSE 2 * next_power_of_two((n + 1) \div 2)

\* a & b on unsigned integers
RECURSIVE bitand(_, _)
bitand(a, b) ==
  IF a = 0 \/ b = 0 THEN 0
  ELSE (a % 2) * (b % 2) + 2 * bitand(a \div 2, b \div 2)

\* BasicHistogram::new
NewHistogram == [hits |-> 0, misses |-> 0]

\* BasicHistogram::hit; the u64 counter is far from its limit after the
\* calls of a run.
hit(h) == [h EXCEPT !.hits = h.hits + 1]

\* BasicHistogram::miss
miss(h) == [h EXCEPT !.misses = h.misses + 1]

\* TranspositionTable::with_histogram; an entry is << hash, value >>.
with_histogram(size) ==
  LET rounded == next_power_of_two(size \div EntrySize)
      count == IF rounded * EntrySize > size THEN rounded \div 2 ELSE rounded
  IN [table |-> [i \in 1..count |-> << 0, Default >>],
      histogram |-> NewHistogram]

\* TranspositionTable::new
new(size) == with_histogram(size)

\* The index of the slot of key, counted from 0 as in the source.
idx(t, key) == bitand(key, Len(t.table) - 1)

\* TranspositionTable::get: the table after the call, whose histogram has
\* counted the call, and the result, None or the value found (for Some).
get(t, key) ==
  IF Len(t.table) > 0 /\ key = t.table[idx(t, key) + 1][1]
  THEN [tt |-> [t EXCEPT !.histogram = hit(t.histogram)],
        out |-> t.table[idx(t, key) + 1][2]]
  ELSE [tt |-> [t EXCEPT !.histogram = miss(t.histogram)], out |-> None]

\* TranspositionTable::set
set(t, key, entry) ==
  IF Len(t.table) > 0
  THEN [t EXCEPT !.table[idx(t, key) + 1] = << key, entry >>]
  ELSE t

\* TranspositionTable::clear
clear(t) ==
  [t EXCEPT !.table = [i \in DOMAIN t.table |-> << 0, t.table[i][2] >>]]

\* ---- the state machine of the transposition table ------------------------
\* The longest sequence of calls on one table.
MaxCalls == 3

\* The sizes in bytes the table is constructed with: room for no entry, for
\* one, two, three and four entries.
Sizes == {EntrySize - 1, EntrySize, 2 * EntrySize, 3 * EntrySize, 4 * EntrySize}

\* The keys and the values of the calls.
Keys == {0, 1, 3, 4}

Values == {1, 2}

\* tt = TranspositionTable::new(size)
InitTable ==
  /\ \E size \in Sizes : tt = new(size)
  /\ history = << >>
  /\ call = NoCall
  /\ fen = 1
  /\ board = NewBoard
  /\ prev = NewBoard
  /\ last = NoMove
  /\ ply = 0
  /\ saved = << >>
  /\ depth = 0
  /\ nodes = None

\* tt.set(key, entry)
Set ==
  /\ Len(history) < MaxCalls
  /\ \E key \in Keys : \E entry \in Values :
       /\ tt' = set(tt, key, entry)
       /\ history' = Append(history, [op |-> "set", key |-> key,
                                      entry |-> entry])
  /\ call' = NoCall
  /\ UNCHANGED << board, prev, last, ply, fen, saved, depth, nodes >>

\* tt.get(key)
Get ==
  /\ Len(history) < MaxCalls
  /\ \E key \in Keys : \E r \in {get(tt, key)} :
       /\ tt' = r.tt
       /\ call' = [op |-> "get", arg |-> key, out |-> r.out]
       /\ history' = Append(history, [op |-> "get", key |-> key,
                                      entry |-> None])
  /\ UNCHANGED << board, prev, last, ply, fen, saved, depth, nodes >>

\* tt.clear()
Clear ==
  /\ Len(history) < MaxCalls
  /\ tt' = clear(tt)
  /\ history' = Append(history, [op |-> "clear", key |-> None,
                                 entry |-> None])
  /\ call' = NoCall
  /\ UNCHANGED << board, prev, last, ply, fen, saved, depth, nodes >>

NextTable == Set \/ Get \/ Clear

SpecTable == InitTable /\ [][NextTable]_vars

\* ---- the transposition table: claims -------------------------------------
\* The calls before the last one.
Earlier == SubSeq(history, 1, Len(history) - 1)

\* The positions in the earlier calls of the sets into the slot of key that
\* no clear has followed; the slot of a key is the key modulo the length of
\* the table.
LiveSets(key) ==
  {i \in DOMAIN Earlier :
     /\ Earlier[i].op = "set"
     /\ Len(tt.table) > 0
     /\ Earlier[i].key % Len(tt.table) = key % Len(tt.table)
     /\ \A j \in (i + 1)..Len(Earlier) : Earlier[j].op # "clear"}

\* The most recent of them.
LastSet(key) == CHOOSE i \in LiveSets(key) : \A j \in LiveSets(key) : j <= i

\* C30: a get(key) returns Some(v) only if the most recent set into the slot
\* of key was set(key, v) and no clear came after it; on a fresh table,
\* after a clear and after a set of another key into the slot it returns
\* None.
C30_NoFalseHit ==
  call.op = "get" =>
    IF LiveSets(call.arg) # {}
       /\ Earlier[LastSet(call.arg)].key = call.arg
    THEN call.out \in {None, Earlier[LastSet(call.arg)].entry}
    ELSE call.out = None

\* ---- the kings: claims ---------------------------------------------------
\* The squares the kings of a colour stand on.
KingSquares(b, colour) ==
  {s \in Squares : Placement(b)[s] = << colour, King >>}

\* C29: from a starting position with one king of each colour, every
\* position reached by moves of generate, generate_captures and
\* generate_captures_incremental has exactly one king of each colour, on the
\* board and in the kings bitlist, so that peek_nonzero on the kings of a
\* colour is defined, and no move the three generators produce in it lands
\* on the square of a king.
C29_OneKingEach ==
  /\ \A colour \in {White, Black} :
       /\ Cardinality(KingSquares(board, colour)) = 1
       /\ Cardinality(kings(board.data) \cap mask_from_colour(colour)) = 1
       /\ square_of_piece(board.data,
                          peek_nonzero(kings(board.data)
                                         \cap mask_from_colour(colour)))
            \in KingSquares(board, colour)
  /\ \A m \in AllGenerated(board) :
       m.dest \notin KingSquares(board, White) \cup KingSquares(board, Black)

\* C29 witness: a move was made in a position in which the side to move
\* attacked the square of the enemy king, and both kings are still there.
C29_Witness ==
  /\ ply >= 2
  /\ \E s \in KingSquares(prev, Not(prev.side)) :
       /\ Attacked(Placement(prev), s, prev.side)
       /\ s \in KingSquares(board, Not(prev.side))
  /\ KingSquares(board, prev.side) # {}
=============================================================================
